---- MODULE Spec2Model ----
(***************************************************************************)
(* QuantOL backtest core: the bar loop of BacktestEngine.run with its      *)
(* EventCoordinator queue and handlers, EquityService, the rule priority   *)
(* of RuleBasedStrategy.generate_signals and the LRU tier of               *)
(* RuleCacheManager.                                                       *)
(*                                                                         *)
(* Money and prices are integers; a drawdown is the exact fraction         *)
(* <<numerator, denominator>> with a positive denominator.                 *)
(***************************************************************************)
EXTENDS Integers, Sequences, FiniteSets, TLC

\* ------------------------------------------------------------------ bounds

\* Rows of the price table (dates 1..TableLen, strictly increasing).
TableLen == 2
\* Events pushed through engine.push_event before run is called.
MaxExternal == 1
\* BacktestConfig.initial_capital of the modelled run.
InitialCapital == 4
\* Largest close price of a bar (prices are 0..MaxPrice).
MaxPrice == 2

\* Python's None for an optional quantity or price.
NONE == -1

\* ------------------------------------------------------------------ state

VARIABLES
    tdAcceptsPrice,       \* does TradingDayEvent(...) accept a price keyword
    hasClose,             \* the price table has a close column
    hasCallback,          \* engine.progress_callback is set
    pc,                   \* position of BacktestEngine.run
    filtered,             \* filtered_data: the in-range dates, in table order
    pos,                  \* rows of filtered_data the for loop has taken
    current_index,        \* engine.current_index (= current_time)
    current_price,        \* engine.current_price
    stratIdx,             \* position of the loop over engine.strategies
    last_progress_update, \* engine._last_progress_update
    queue,                \* EventCoordinator._queue
    nextId,               \* events pushed so far + 1 (names each pushed event)
    lastHandled,          \* name of the event dispatched last
    handled,              \* events given to a handler: [id, type, handler, raised], in order
    dropped,              \* names of the events popped with no handler registered
    trades,               \* engine.trades
    errors,               \* engine.errors
    cash,                 \* PortfolioManager available cash
    position,             \* PortfolioManager quantity held of the symbol
    equity_records,       \* EquityService.equity_records (total_value column)
    peak_value,           \* EquityService._peak_value
    max_drawdown,         \* EquityService._max_drawdown
    current_drawdown,     \* update_equity's local current_drawdown, last call
    steps,                \* steps the current bar has performed, in order
    visited,              \* dates the loop has taken, in order
    caught,               \* exceptions caught by the loop's except clause
    lastError,            \* what the except clause caught in the current bar
    escaped,              \* an exception left run
    metrics_max_drawdown, \* metrics['max_drawdown'] of calculate_advanced_metrics
    time_cache,           \* RuleCacheManager._time_cache, oldest entry first
    time_cache_hits,      \* RuleCacheManager.time_cache_hits
    time_cache_misses,    \* RuleCacheManager.time_cache_misses
    last_evicted,         \* key removed by the last popitem(last=False)
    use_order,            \* keys used since the last clear, by last use, oldest first
    rule_exprs,           \* RuleBasedStrategy: which rule expressions are set
    hasPortfolio,         \* RuleBasedStrategy.portfolio_manager is set
    hasCode,              \* the strategy's table has a code column
    hasCombinedTime,      \* the strategy's table has a combined_time column
    gs_phase,             \* generate_signals: "ready" or "returned"
    gs_outcome,           \* what evaluating each rule gives on this bar
    gs_position,          \* quantity the portfolio holds of the symbol
    gs_signals,           \* signals generate_signals returned (none or one)
    gs_considered,        \* rules generate_signals evaluated, in order
    parser_current_index, \* RuleParser.current_index
    tables,               \* the table objects: the caller's and each run's debug_data
    data_ref,             \* per run: the object engine.data and parser.data name
    run_pc,               \* per run: "new", "built", "done" or "reported"
    run_pos,              \* per run: bars taken
    own_rule,             \* per run: the rule expression of its strategy
    own_marks,            \* per run: the signal marks the run itself wrote
    reported,             \* per run: signals and columns returned by get_results
    ev_data,              \* RuleParser.data: the price columns of the table
    ev_time_cache,        \* the parser's RuleCacheManager._time_cache, oldest first
    ev_service_cache,     \* the parser's IndicatorService._cache
    ev_trace,             \* the trace cells written into RuleParser.data
    ev_last,              \* the last evaluation: its rule, step, mode and outcome
    ev_count,             \* calls made on the parser
    ev_rules,             \* which list of texts the parser's caller draws from
    ev_portfolio,         \* the parser's portfolio manager: total cost, quantity held
    ev_checked,           \* the last validate_syntax call: the text and what it returned
    rk_data,              \* CrossSectionalRanker.data_dict: items in insertion order
    rk_index,             \* CrossSectionalRanker.current_index
    rk_symbol,            \* CrossSectionalRanker.current_symbol
    rk_result,            \* the last call of rank: the step, the symbol, the rank
    rb_config,            \* RankingConfig
    rb_market,            \* which data_dict the strategy is built over
    rb_portfolio,         \* RankingBasedStrategy.portfolio_manager is set
    rb_parsers,           \* CrossSectionalRankingService._rule_parsers: cache and trace
    rb_service_cache,     \* the shared IndicatorService._cache
    target_positions,     \* RankingBasedStrategy.target_positions
    current_positions,    \* RankingBasedStrategy.current_positions
    rb_signals,           \* the signals the last calculate_signals call returned
    last_rebalance_date,  \* RankingBasedStrategy.last_rebalance_date
    rb_call,              \* the last calculate_signals call: its inputs, fired, the date before
    reg_strategies,       \* engine.strategies of an engine that registers strategies
    reg_handlers,         \* that engine's EventCoordinator._handlers
    reg_call,             \* the last register_strategy call: the strategy, what it raised
    rp_config,            \* RebalancePeriodService: the config it was built with
    trading_days_count,   \* RebalancePeriodService.trading_days_count
    rp_last_rebalance_date, \* RebalancePeriodService.last_rebalance_date
    rp_call,              \* the last should_rebalance call: day, is_new_day, result
    rp_trues,             \* the days of the last two calls that returned True
    rp_misses,            \* new-day calls that returned False since the last True
    active_connections,   \* WebSocketManager.active_connections: backtest_id -> set
    broadcast,            \* the broadcast_progress coroutine: where it is, its locals
    bt_store,             \* BacktestStateService: backtest_id -> stored record
    bt_task               \* per backtest_id: where its _execute_backtest_async is

engineVars == <<tdAcceptsPrice, hasClose, hasCallback, pc, filtered, pos,
                current_index, current_price, stratIdx, last_progress_update,
                queue, nextId, lastHandled, handled, dropped, trades, errors,
                cash, position, steps, visited, caught, lastError, escaped>>
equityVars == <<equity_records, peak_value, max_drawdown, current_drawdown>>
cacheVars == <<time_cache, time_cache_hits, time_cache_misses, last_evicted,
               use_order>>
strategyVars == <<rule_exprs, hasPortfolio, hasCode, hasCombinedTime, gs_phase,
                  gs_outcome, gs_position, gs_signals, gs_considered,
                  parser_current_index>>
tableVars == <<tables, data_ref, run_pc, run_pos, own_rule, own_marks, reported>>

\* the engine, its equity service, the report, one cache and one strategy
coreVars == <<engineVars, equityVars, metrics_max_drawdown, cacheVars, strategyVars>>

\* the parts modelled on their own
evalVars == <<ev_data, ev_time_cache, ev_service_cache, ev_trace, ev_last, ev_count,
              ev_rules, ev_portfolio, ev_checked>>
rankVars == <<rk_data, rk_index, rk_symbol, rk_result>>
rebalanceVars == <<rb_config, rb_market, rb_portfolio, rb_parsers, rb_service_cache,
                   target_positions, current_positions, rb_signals,
                   last_rebalance_date, rb_call>>
registerVars == <<reg_strategies, reg_handlers, reg_call>>
periodVars == <<rp_config, trading_days_count, rp_last_rebalance_date, rp_call,
                rp_trues, rp_misses>>
socketVars == <<active_connections, broadcast>>
statusVars == <<bt_store, bt_task>>
serviceVars == <<registerVars, periodVars, socketVars, statusVars>>
laterVars == <<tableVars, evalVars, rankVars, rebalanceVars, serviceVars>>

\* what the runs over one table, a parser's evaluations, a ranker and a
\* ranking strategy leave alone
tableOthers == <<coreVars, evalVars, rankVars, rebalanceVars, serviceVars>>
evalOthers == <<coreVars, tableVars, rankVars, rebalanceVars, serviceVars>>
rankOthers == <<coreVars, tableVars, evalVars, rebalanceVars, serviceVars>>
rebalanceOthers == <<coreVars, tableVars, evalVars, rankVars, serviceVars>>

\* what the services modelled on their own leave alone
modelVars == <<coreVars, tableVars, evalVars, rankVars, rebalanceVars>>
registerOthers == <<modelVars, periodVars, socketVars, statusVars>>
periodOthers == <<modelVars, registerVars, socketVars, statusVars>>
socketOthers == <<modelVars, registerVars, periodVars, statusVars>>
statusOthers == <<modelVars, registerVars, periodVars, socketVars>>

vars == <<coreVars, laterVars>>

\* what the engine's run does not touch
otherVars == <<metrics_max_drawdown, cacheVars, strategyVars, laterVars>>

\* ------------------------------------------------------------------ events

\* engine.strategies: the strategies registered before run, in order.
Strategies == <<"s1", "s2">>

SignalTypes == {"OPEN", "BUY", "SELL"}

\* The signals a strategy hook may push: [kind, quantity, price]. Quantity 1
\* is affordable at InitialCapital, 3 is not; 0, a zero price, a missing
\* price and a missing quantity are the degenerate cases.
SignalInputs ==
    {[kind |-> k, quantity |-> 1, price |-> MaxPrice] : k \in SignalTypes}
    \cup {[kind |-> "BUY", quantity |-> 3, price |-> MaxPrice],
          [kind |-> "BUY", quantity |-> 0, price |-> MaxPrice],
          [kind |-> "BUY", quantity |-> 1, price |-> 0],
          [kind |-> "BUY", quantity |-> 1, price |-> NONE],
          [kind |-> "BUY", quantity |-> NONE, price |-> MaxPrice]}

\* The events the owner of the engine may push before run: [type, kind,
\* quantity, price].
ExternalInputs ==
    {[type |-> "TradingDay", kind |-> "OPEN", quantity |-> NONE, price |-> NONE],
     [type |-> "Order", kind |-> "BUY", quantity |-> 0, price |-> MaxPrice],
     [type |-> "Order", kind |-> "SELL", quantity |-> 1, price |-> MaxPrice],
     [type |-> "Signal", kind |-> "BUY", quantity |-> 1, price |-> MaxPrice]}

\* row['close'] of the table row dated d.
Close(d) == IF d % 2 = 1 THEN MaxPrice ELSE 1

\* SignalType.X.value: the enum member's name (the engine compares an order's
\* direction, which is this value, with 'BUY').
SignalTypeValue(t) == t

Event(type, id, kind, quantity, price) ==
    [type |-> type, id |-> id, kind |-> kind, quantity |-> quantity, price |-> price]

\* Event types with a handler registered by BacktestEngine.__init__.
HandledTypes == {"Signal", "Order", "Fill"}

\* EventCoordinator._handlers after BacktestEngine.__init__
handlers ==
    [t \in HandledTypes |->
        CASE t = "Signal" -> "_handle_signal_event"
          [] t = "Order" -> "_handle_order_event"
          [] t = "Fill" -> "_handle_fill_event"]

\* TradingDayEvent(timestamp=idx, price=price): TRUE when construction succeeds.
TradingDayEvent(acceptsPrice) == acceptsPrice

\* deque.append
push_event(q, e) == Append(q, e)

\* deque.pop (the newest event first) in place of popleft.
pop_right(q) == <<q[Len(q)], SubSeq(q, 1, Len(q) - 1)>>

\* deque.popleft: <<event, rest>>
popleft(q) == <<Head(q), Tail(q)>>

\* ------------------------------------------------------------------ portfolio

\* PortfolioManager.update_position(symbol, quantity, price, commission):
\* <<success, cash, position>>. quantity > 0 buys, quantity < 0 sells.
update_position(c, p, quantity, price, commission) ==
    IF quantity = 0 \/ price <= 0 THEN <<FALSE, c, p>>
    ELSE IF quantity > 0
         THEN IF quantity * price + commission > c THEN <<FALSE, c, p>>
              ELSE <<TRUE, c - (quantity * price + commission), p + quantity>>
         ELSE IF -quantity > p THEN <<FALSE, c, p>>
              ELSE <<TRUE, c + ((-quantity) * price - commission), p + quantity>>

\* config.commission_rate of the modelled run, in percent of the order amount
\* (a configuration input; money is in whole units here).
CommissionPct == 50

\* ------------------------------------------------------------------ equity

FracLess(a, b) == a[1] * b[2] < b[1] * a[2]
FracMax(a, b) == IF FracLess(a, b) THEN b ELSE a

\* update_equity that takes every total value as the new peak.
update_equity_last_as_peak(recs, peak, mdd, c, p, price) ==
    LET total_value == c + p * price
        dd == IF total_value > 0 THEN <<0, total_value>> ELSE <<0, 1>>
    IN  [records |-> Append(recs, total_value),
         peak |-> total_value,
         max_drawdown |-> FracMax(mdd, dd),
         current_drawdown |-> dd]

\* EquityService.update_equity: the service's state after one call.
update_equity(recs, peak, mdd, c, p, price) ==
    LET total_value == c + p * price
        newPeak == IF total_value > peak THEN total_value ELSE peak
        dd == IF newPeak > 0 THEN <<newPeak - total_value, newPeak>> ELSE <<0, 1>>
    IN  [records |-> Append(recs, total_value),
         peak |-> newPeak,
         max_drawdown |-> FracMax(mdd, dd),
         current_drawdown |-> dd]

\* ------------------------------------------------------------------ order path

\* OrderCoordinator._calculate_order_quantity
calculate_order_quantity(sig) ==
    IF sig.quantity # NONE THEN sig.quantity
    ELSE IF SignalTypeValue(sig.kind) = "buy" THEN 1
    ELSE IF SignalTypeValue(sig.kind) = "sell" THEN -1
    ELSE 0

\* OrderCoordinator.create_order_from_signal: the order's fields; ok is FALSE
\* when the code returns None (no order)
create_order_from_signal(sig) ==
    LET quantity == calculate_order_quantity(sig)
    IN  [ok |-> sig.price # NONE /\ quantity # 0,
         kind |-> SignalTypeValue(sig.kind), quantity |-> quantity,
         price |-> sig.price]

\* BacktestEngine._handle_signal_event: <<raised, queue>>; float(event.price)
\* raises on a signal without a price
handle_signal_event(q, id, e) ==
    IF e.price = NONE THEN <<TRUE, q>>
    ELSE LET order == create_order_from_signal(e)
         IN  IF ~order.ok THEN <<FALSE, q>>
             ELSE <<FALSE, push_event(q, Event("Order", id, order.kind,
                                                order.quantity, order.price))>>

\* A log_error that appends nothing.
log_nothing(er, message, c, p) == er

\* BacktestEngine.log_error: the list with the entry appended
log_error(er, message, c, p) ==
    Append(er, [message |-> message, current_capital |-> c, position |-> p])

\* _handle_order_event without the `if not success: return` guard.
handle_order_event_unchecked(e, c, p, tr, er, now) ==
    LET order_amount == e.quantity * e.price
        commission == (order_amount * CommissionPct) \div 100
        quantity == IF e.kind = "BUY" THEN e.quantity ELSE -e.quantity
        res == update_position(c, p, quantity, e.price, commission)
    IN  [raised |-> FALSE, cash |-> res[2], position |-> res[3],
         trades |-> Append(tr, [timestamp |-> now, direction |-> e.kind,
                                price |-> e.price, quantity |-> e.quantity,
                                commission |-> commission,
                                total_cost |-> order_amount + commission]),
         errors |-> er]

\* BacktestEngine._handle_order_event:
\* [raised, cash, position, trades, errors]; float(None) raises
handle_order_event(e, c, p, tr, er, now) ==
    IF e.quantity = NONE \/ e.price = NONE
    THEN [raised |-> TRUE, cash |-> c, position |-> p, trades |-> tr, errors |-> er]
    ELSE
    LET order_amount == e.quantity * e.price
        commission == (order_amount * CommissionPct) \div 100
        total_cost == order_amount + commission
        quantity == IF e.kind = "BUY" THEN e.quantity ELSE -e.quantity
        res == update_position(c, p, quantity, e.price, commission)
    IN  IF ~res[1]
        THEN [raised |-> FALSE, cash |-> c, position |-> p, trades |-> tr,
              errors |-> log_error(er, <<"Order execution failed", e.kind, e.quantity,
                                         e.price>>, c, p)]
        ELSE [raised |-> FALSE, cash |-> res[2], position |-> res[3],
              trades |-> Append(tr, [timestamp |-> now, direction |-> e.kind,
                                     price |-> e.price, quantity |-> e.quantity,
                                     commission |-> commission,
                                     total_cost |-> IF e.kind = "BUY" THEN total_cost
                                                    ELSE -total_cost]),
              errors |-> er]

\* ------------------------------------------------------------------ run

\* filtered_data = self.data[(dates >= start) & (dates <= end)]
FilterDates(start, end) ==
    LET F[i \in 0..TableLen] ==
            IF i = 0 THEN <<>>
            ELSE IF start <= i /\ i <= end THEN Append(F[i - 1], i) ELSE F[i - 1]
    IN  F[TableLen]

FullBar == <<"set", "equity", "enqueue", "hooks", "drain">>

EngineInit ==
    /\ tdAcceptsPrice \in BOOLEAN
    /\ hasClose \in BOOLEAN
    /\ hasCallback \in BOOLEAN
    /\ pc = "idle"
    /\ filtered = <<>>
    /\ pos = 0
    /\ current_index = NONE
    /\ current_price = NONE
    /\ stratIdx = 0
    /\ last_progress_update = 0
    /\ queue = <<>>
    /\ nextId = 1
    /\ lastHandled = 0
    /\ handled = <<>>
    /\ dropped = <<>>
    /\ trades = <<>>
    /\ errors = <<>>
    /\ cash = InitialCapital
    /\ position = 0
    /\ equity_records = <<>>
    /\ peak_value = InitialCapital
    /\ max_drawdown = <<0, 1>>
    /\ current_drawdown = <<0, 1>>
    /\ steps = <<>>
    /\ visited = <<>>
    /\ caught = 0
    /\ lastError = "none"
    /\ escaped = FALSE

\* An except clause that re-raises: the exception leaves run.
LoopExceptReraise(what) ==
    /\ pc' = "done"
    /\ caught' = caught + 1
    /\ lastError' = what
    /\ errors' = errors
    /\ escaped' = TRUE

\* except Exception as e: logger.error(...); continue
LoopExcept(what) ==
    /\ pc' = "loop"
    /\ caught' = caught + 1
    /\ lastError' = what
    /\ errors' = errors
    /\ escaped' = escaped

\* engine.push_event called by the owner of the engine before run
PushExternal ==
    /\ UNCHANGED <<otherVars, handled, dropped>>
    /\ pc = "idle"
    /\ nextId <= MaxExternal
    /\ \E x \in ExternalInputs :
          queue' = push_event(queue, Event(x.type, nextId, x.kind, x.quantity, x.price))
    /\ nextId' = nextId + 1
    /\ UNCHANGED <<tdAcceptsPrice, hasClose, hasCallback, pc, filtered, pos,
                   current_index, current_price, stratIdx, last_progress_update,
                   lastHandled, trades, errors, cash, position, steps, visited,
                   caught, lastError, escaped, equityVars>>

\* run up to the for loop: the date filter
RunStart ==
    /\ UNCHANGED <<otherVars, handled, dropped>>
    /\ pc = "idle"
    /\ \E start \in 1..2, end \in (TableLen - 1)..TableLen :
          filtered' = FilterDates(start, end)
    /\ pc' = "loop"
    /\ UNCHANGED <<tdAcceptsPrice, hasClose, hasCallback, pos, current_index,
                   current_price, stratIdx, last_progress_update, queue, nextId,
                   lastHandled, trades, errors, cash, position, steps, visited,
                   caught, lastError, escaped, equityVars>>

\* for idx, row in filtered_data.iterrows(): the next row, current_index,
\* current_time and current_price (or continue when there is no close)
BarSetCurrent ==
    /\ UNCHANGED <<otherVars, handled, dropped>>
    /\ pc = "loop"
    /\ pos < Len(filtered)
    /\ pos' = pos + 1
    /\ current_index' = filtered[pos + 1]
    /\ visited' = Append(visited, filtered[pos + 1])
    /\ lastError' = "none"
    /\ IF hasClose
       THEN /\ current_price' = Close(filtered[pos + 1])
            /\ steps' = <<"set">>
            /\ pc' = "equity"
       ELSE /\ current_price' = current_price
            /\ steps' = <<>>
            /\ pc' = "loop"
    /\ UNCHANGED <<tdAcceptsPrice, hasClose, hasCallback, filtered, stratIdx,
                   last_progress_update, queue, nextId, lastHandled, trades,
                   errors, cash, position, caught, escaped, equityVars>>

\* self.equity_service.update_equity(idx, price)
BarUpdateEquity ==
    /\ UNCHANGED <<otherVars, handled, dropped>>
    /\ pc = "equity"
    /\ LET s == update_equity(equity_records, peak_value, max_drawdown,
                              cash, position, current_price)
       IN  /\ equity_records' = s.records
           /\ peak_value' = s.peak
           /\ max_drawdown' = s.max_drawdown
           /\ current_drawdown' = s.current_drawdown
    /\ steps' = Append(steps, "equity")
    /\ pc' = "event"
    /\ UNCHANGED <<tdAcceptsPrice, hasClose, hasCallback, filtered, pos,
                   current_index, current_price, stratIdx, last_progress_update,
                   queue, nextId, lastHandled, trades, errors, cash, position,
                   visited, caught, lastError, escaped>>

\* trading_day_event = TradingDayEvent(timestamp=idx, price=price); push_event
BarTradingDayEvent ==
    /\ UNCHANGED <<otherVars, handled, dropped>>
    /\ pc = "event"
    /\ IF TradingDayEvent(tdAcceptsPrice)
       THEN /\ queue' = push_event(queue, Event("TradingDay", nextId, "OPEN",
                                                NONE, current_price))
            /\ nextId' = nextId + 1
            /\ steps' = Append(steps, "enqueue")
            /\ stratIdx' = 1
            /\ pc' = "strategies"
            /\ UNCHANGED <<caught, lastError, errors, escaped>>
       ELSE /\ LoopExcept("TradingDayEvent")
            /\ UNCHANGED <<queue, nextId, steps, stratIdx>>
    /\ UNCHANGED <<tdAcceptsPrice, hasClose, hasCallback, filtered, pos,
                   current_index, current_price, last_progress_update,
                   lastHandled, trades, cash, position, visited, equityVars>>

\* await strategy.on_data(row, idx) / strategy.handle_event(trading_day_event)
\* of one strategy: it raises, or returns having pushed at most one signal
BarStrategyHook ==
    /\ UNCHANGED <<otherVars, handled, dropped>>
    /\ pc = "strategies"
    /\ stratIdx <= Len(Strategies)
    /\ \/ /\ LoopExcept("hook")
          /\ UNCHANGED <<queue, nextId, stratIdx>>
       \/ /\ stratIdx' = stratIdx + 1
          /\ UNCHANGED <<queue, nextId, pc, caught, lastError, errors, escaped>>
       \/ /\ \E x \in SignalInputs :
                queue' = push_event(queue, Event("Signal", nextId, x.kind, x.quantity, x.price))
          /\ nextId' = nextId + 1
          /\ stratIdx' = stratIdx + 1
          /\ UNCHANGED <<pc, caught, lastError, errors, escaped>>
    /\ UNCHANGED <<tdAcceptsPrice, hasClose, hasCallback, filtered, pos,
                   current_index, current_price, last_progress_update,
                   lastHandled, trades, cash, position, steps, visited, equityVars>>

\* the loop over self.strategies is over: process_event_queue is called
BarBeginDrain ==
    /\ UNCHANGED <<otherVars, handled, dropped>>
    /\ pc = "strategies"
    /\ stratIdx > Len(Strategies)
    /\ steps' = Append(steps, "hooks")
    /\ pc' = "drain"
    /\ UNCHANGED <<tdAcceptsPrice, hasClose, hasCallback, filtered, pos,
                   current_index, current_price, stratIdx, last_progress_update,
                   queue, nextId, lastHandled, trades, errors, cash, position,
                   visited, caught, lastError, escaped, equityVars>>

\* a handler call that lets what the handler raises leave the drain: run's
\* except clause takes it and goes on with the next bar
handler_call_unguarded(raised) == IF raised THEN "loop" ELSE "drain"

\* try: handler(event) except Exception: log -- where process_event_queue
\* is after the call
handler_call(raised) == "drain"

\* the handler of an event raises: float(None) in the signal handler on a
\* signal without a price, in the order handler on an order without one
Raises(event) ==
    \/ event.type = "Signal" /\ handle_signal_event(<<>>, 0, event)[1]
    \/ event.type = "Order" /\ (event.quantity = NONE \/ event.price = NONE)

\* one iteration of process_event_queue's while loop: popleft, look the
\* handler up, call it inside try/except
ProcessEvent ==
    /\ UNCHANGED otherVars
    /\ pc = "drain"
    /\ queue # <<>>
    /\ LET event == popleft(queue)[1]
           rest == popleft(queue)[2]
       IN  /\ lastHandled' = event.id
           /\ IF event.type \in HandledTypes
              THEN /\ handled' = Append(handled, [id |-> event.id, type |-> event.type,
                                                 handler |-> handlers[event.type],
                                                 raised |-> Raises(event)])
                   /\ pc' = handler_call(Raises(event))
                   /\ UNCHANGED dropped
              ELSE /\ dropped' = Append(dropped, event.id)
                   /\ UNCHANGED <<handled, pc>>
           /\ IF event.type \notin HandledTypes
              THEN UNCHANGED <<nextId, trades, errors, cash, position>>
                   /\ queue' = rest
              ELSE IF event.type = "Signal"
              THEN LET r == handle_signal_event(rest, nextId, event)
                   IN  /\ queue' = r[2]
                       /\ nextId' = IF Len(r[2]) > Len(rest) THEN nextId + 1 ELSE nextId
                       /\ UNCHANGED <<trades, errors, cash, position>>
              ELSE IF event.type = "Order"
              THEN LET r == handle_order_event(event, cash, position, trades,
                                               errors, current_index)
                   IN  /\ queue' = rest
                       /\ cash' = r.cash
                       /\ position' = r.position
                       /\ trades' = r.trades
                       /\ errors' = r.errors
                       /\ UNCHANGED nextId
              ELSE /\ queue' = rest
                   /\ UNCHANGED <<nextId, trades, errors, cash, position>>
    /\ UNCHANGED <<tdAcceptsPrice, hasClose, hasCallback, filtered, pos,
                   current_index, current_price, stratIdx, last_progress_update,
                   steps, visited, caught, lastError, escaped, equityVars>>

\* while self._queue: is false: process_event_queue returns
DrainReturn ==
    /\ UNCHANGED <<otherVars, handled, dropped>>
    /\ pc = "drain"
    /\ queue = <<>>
    /\ steps' = Append(steps, "drain")
    /\ pc' = "progress"
    /\ UNCHANGED <<tdAcceptsPrice, hasClose, hasCallback, filtered, pos,
                   current_index, current_price, stratIdx, last_progress_update,
                   queue, nextId, lastHandled, trades, errors, cash, position,
                   visited, caught, lastError, escaped, equityVars>>

\* the throttled progress callback, then await asyncio.sleep(0)
BarProgress ==
    /\ UNCHANGED <<otherVars, handled, dropped>>
    /\ pc = "progress"
    /\ LET current_idx == pos - 1
           total == Len(filtered)
           step == IF total \div 100 > 1 THEN total \div 100 ELSE 1
       IN  IF hasCallback /\ current_idx - last_progress_update >= step
           THEN \/ /\ LoopExcept("callback")
                   /\ UNCHANGED last_progress_update
                \/ /\ last_progress_update' = current_idx
                   /\ pc' = "loop"
                   /\ UNCHANGED <<caught, lastError, errors, escaped>>
           ELSE /\ pc' = "loop"
                /\ UNCHANGED <<last_progress_update, caught, lastError, errors,
                               escaped>>
    /\ UNCHANGED <<tdAcceptsPrice, hasClose, hasCallback, filtered, pos,
                   current_index, current_price, stratIdx, queue, nextId,
                   lastHandled, trades, cash, position, steps, visited, equityVars>>

\* the for loop is exhausted: run returns
RunFinish ==
    /\ UNCHANGED <<otherVars, handled, dropped>>
    /\ pc = "loop"
    /\ pos = Len(filtered)
    /\ pc' = "done"
    /\ UNCHANGED <<tdAcceptsPrice, hasClose, hasCallback, filtered, pos,
                   current_index, current_price, stratIdx, last_progress_update,
                   queue, nextId, lastHandled, trades, errors, cash, position,
                   steps, visited, caught, lastError, escaped, equityVars>>

Next ==
    \/ PushExternal
    \/ RunStart
    \/ BarSetCurrent
    \/ BarUpdateEquity
    \/ BarTradingDayEvent
    \/ BarStrategyHook
    \/ BarBeginDrain
    \/ ProcessEvent
    \/ DrainReturn
    \/ BarProgress
    \/ RunFinish

\* ------------------------------------------------------------------ metrics

\* Equity records of one EquityService under direct update_equity calls.
MaxRecords == 3
\* Cash and holdings the portfolio may report to update_equity.
CashValues == 0..(InitialCapital + 2)
HeldValues == 0..2

\* metrics without a max_drawdown entry
Absent == <<NONE, 1>>

SeqMax(q) == CHOOSE x \in {q[i] : i \in 1..Len(q)} : \A j \in 1..Len(q) : q[j] <= x
SeqMin(q) == CHOOSE x \in {q[i] : i \in 1..Len(q)} : \A j \in 1..Len(q) : q[j] >= x

\* EquityService.calculate_max_drawdown
calculate_max_drawdown(recs) ==
    IF recs = <<>> THEN <<0, 1>>
    ELSE LET peak == SeqMax(recs)
             trough == SeqMin(recs)
         IN  IF peak # 0 THEN <<peak - trough, peak>> ELSE <<0, 1>>

\* ResultsService._calculate_daily_returns returns a non-empty list
HasDailyReturns(recs) == \E i \in 2..Len(recs) : recs[i - 1] > 0

\* ResultsService.calculate_advanced_metrics: metrics['max_drawdown'], in
\* percent, or Absent when the method returns before setting it
calculate_advanced_metrics(recs) ==
    IF recs = <<>> \/ ~HasDailyReturns(recs) THEN Absent
    ELSE LET d == calculate_max_drawdown(recs) IN <<d[1] * 100, d[2]>>

\* one update_equity call with what the portfolio and the bar report
EquityCall ==
    /\ metrics_max_drawdown = Absent
    /\ Len(equity_records) < MaxRecords
    /\ \E c \in CashValues, p \in HeldValues, price \in 0..MaxPrice :
          LET s == update_equity(equity_records, peak_value, max_drawdown, c, p, price)
          IN  /\ equity_records' = s.records
              /\ peak_value' = s.peak
              /\ max_drawdown' = s.max_drawdown
              /\ current_drawdown' = s.current_drawdown
    /\ UNCHANGED <<engineVars, laterVars, metrics_max_drawdown, cacheVars, strategyVars>>

\* the report: ResultsService.calculate_advanced_metrics
CalculateAdvancedMetrics ==
    /\ metrics_max_drawdown = Absent
    /\ calculate_advanced_metrics(equity_records) # Absent
    /\ metrics_max_drawdown' = calculate_advanced_metrics(equity_records)
    /\ UNCHANGED <<engineVars, laterVars, equityVars, cacheVars, strategyVars>>

\* ------------------------------------------------------------------ cache

\* RuleCacheManager.max_size (1000 unless the constructor is told otherwise;
\* the parser passes 1000), scaled down.
max_size == 2
\* get_time_cached calls counted by the hit and miss statistics.
MaxGets == 2

CacheKeys == 1..(max_size + 1)
CacheValues == {"v1", "v2"}

HasKey(c, key) == \E i \in 1..Len(c) : c[i].key = key
Entry(c, key) == c[CHOOSE i \in 1..Len(c) : c[i].key = key]
Remove(c, key) == SelectSeq(c, LAMBDA e : e.key # key)

\* a key has been used: it becomes the most recently used one
Used(order, key) == Append(SelectSeq(order, LAMBDA k : k # key), key)

\* A hit that leaves the entry where it is.
keep_place(c, key) == c

\* OrderedDict.move_to_end(key)
move_to_end(c, key) == Append(Remove(c, key), Entry(c, key))

\* while len(self._time_cache) > self.max_size: popitem(last=False)
RECURSIVE evict(_)
evict(c) == IF Len(c) > max_size THEN evict(Tail(c)) ELSE c

\* set_time_cached without the eviction loop.
set_time_cached_unbounded(c, key, value) ==
    Append(Remove(c, key), [key |-> key, value |-> value])

\* RuleCacheManager.set_time_cached
set_time_cached(c, key, value) ==
    evict(Append(Remove(c, key), [key |-> key, value |-> value]))

GetTimeCached ==
    /\ time_cache_hits + time_cache_misses < MaxGets
    /\ \E key \in CacheKeys :
          IF HasKey(time_cache, key)
          THEN /\ time_cache_hits' = time_cache_hits + 1
               /\ time_cache' = move_to_end(time_cache, key)
               /\ use_order' = Used(use_order, key)
               /\ UNCHANGED time_cache_misses
          ELSE /\ time_cache_misses' = time_cache_misses + 1
               /\ UNCHANGED <<time_cache, time_cache_hits, use_order>>
    /\ UNCHANGED <<engineVars, laterVars, equityVars, metrics_max_drawdown, last_evicted,
                   strategyVars>>

SetTimeCached ==
    /\ \E key \in CacheKeys, value \in CacheValues :
          LET added == Append(Remove(time_cache, key), [key |-> key, value |-> value])
          IN  /\ time_cache' = set_time_cached(time_cache, key, value)
              /\ last_evicted' = IF Len(added) > Len(set_time_cached(time_cache, key, value))
                                 THEN Head(added).key ELSE last_evicted
              /\ use_order' = Used(use_order, key)
    /\ UNCHANGED <<engineVars, laterVars, equityVars, metrics_max_drawdown, time_cache_hits,
                   time_cache_misses, strategyVars>>

\* RuleCacheManager.clear_time_cache
ClearTimeCache ==
    /\ time_cache # <<>>
    /\ time_cache' = <<>>
    /\ use_order' = <<>>
    /\ UNCHANGED <<engineVars, laterVars, equityVars, metrics_max_drawdown, time_cache_hits,
                   time_cache_misses, last_evicted, strategyVars>>

\* RuleCacheManager.clear_all (the step-independent tier has no caller that
\* fills it and is not modelled)
ClearAll ==
    /\ time_cache # <<>>
    /\ time_cache' = <<>>
    /\ use_order' = <<>>
    /\ UNCHANGED <<engineVars, laterVars, equityVars, metrics_max_drawdown, time_cache_hits,
                   time_cache_misses, last_evicted, strategyVars>>

\* ------------------------------------------------------------------ strategy

RuleNames == {"open", "close", "sell", "buy"}
Outcomes == {"true", "false", "error"}

SignalOf(rule) ==
    CASE rule = "open" -> "OPEN"
      [] rule = "close" -> "LIQUIDATE"
      [] rule = "sell" -> "SELL"
      [] rule = "buy" -> "BUY"

\* RuleBasedStrategy._generate_signal_from_rule: <<signal type>> or <<>> (None).
\* An evaluation error and a failure to build the signal event are caught.
generate_signal_from_rule(rule, exprs, outcome, dataOk) ==
    IF ~exprs[rule] THEN <<>>
    ELSE IF outcome[rule] = "true" /\ dataOk THEN <<SignalOf(rule)>>
    ELSE <<>>

\* The holding branch with the add-to-position rule ahead of the sell rule.
rule_order_buy_first(current_position) ==
    IF current_position = 0 THEN <<"open">> ELSE <<"close", "buy", "sell">>

\* generate_signals: the rules checked for a position, in the order of the code
rule_order(current_position) ==
    IF current_position = 0 THEN <<"open">> ELSE <<"close", "sell", "buy">>

\* the chain of `signal = ...; if signal: return signal`
RECURSIVE first_signal(_, _, _, _)
first_signal(order, exprs, outcome, dataOk) ==
    IF order = <<>> THEN [signals |-> <<>>, considered |-> <<>>]
    ELSE LET sig == generate_signal_from_rule(Head(order), exprs, outcome, dataOk)
             cons == IF exprs[Head(order)] THEN <<Head(order)>> ELSE <<>>
         IN  IF sig # <<>> THEN [signals |-> sig, considered |-> cons]
             ELSE LET r == first_signal(Tail(order), exprs, outcome, dataOk)
                  IN  [signals |-> r.signals, considered |-> cons \o r.considered]

\* RuleBasedStrategy.generate_signals
generate_signals(exprs, outcome, held, withPortfolio, withCode, withTime) ==
    LET current_position == IF withPortfolio /\ withCode THEN held ELSE 0
    IN  first_signal(rule_order(current_position), exprs, outcome,
                     withCode /\ withTime)

GenerateSignals ==
    /\ gs_phase = "ready"
    /\ \E outcome \in [RuleNames -> Outcomes], held \in HeldValues,
          idx \in 0..(TableLen - 1) :
          /\ \A r \in RuleNames : ~rule_exprs[r] => outcome[r] = "false"
          /\ gs_outcome' = outcome
          /\ gs_position' = held
          /\ parser_current_index' = idx
          /\ LET r == generate_signals(rule_exprs, outcome, held, hasPortfolio,
                                       hasCode, hasCombinedTime)
             IN  /\ gs_signals' = r.signals
                 /\ gs_considered' = r.considered
    /\ gs_phase' = "returned"
    /\ time_cache' = <<>>
    /\ use_order' = <<>>
    /\ UNCHANGED <<engineVars, laterVars, equityVars, metrics_max_drawdown, time_cache_hits,
                   time_cache_misses, last_evicted, rule_exprs, hasPortfolio,
                   hasCode, hasCombinedTime>>

\* the caller takes the returned signal; the next bar's call starts afresh
StrategyNextBar ==
    /\ gs_phase = "returned"
    /\ gs_phase' = "ready"
    /\ gs_outcome' = [r \in RuleNames |-> "false"]
    /\ gs_position' = 0
    /\ gs_signals' = <<>>
    /\ gs_considered' = <<>>
    /\ UNCHANGED <<engineVars, laterVars, equityVars, metrics_max_drawdown, cacheVars,
                   rule_exprs, hasPortfolio, hasCode, hasCombinedTime,
                   parser_current_index>>

\* ------------------------------------------------------------------ indicators

\* Numbers are exact: [n, d, root] is n/d, or, with root, the square root of
\* |n|/d carrying the sign of n (a standard deviation, a z-score).
RECURSIVE GCD(_, _)
GCD(a, b) == IF b = 0 THEN a ELSE GCD(b, a % b)

Abs(x) == IF x < 0 THEN -x ELSE x

Rat(n, d) ==
    LET sn == IF d < 0 THEN -n ELSE n
        sd == Abs(d)
        g == GCD(Abs(sn), sd)
    IN  [n |-> sn \div g, d |-> sd \div g, root |-> FALSE]

Num(k) == [n |-> k, d |-> 1, root |-> FALSE]

Root(v, negative) == [n |-> IF negative THEN -v.n ELSE v.n, d |-> v.d, root |-> v.n # 0]

RAdd(a, b) == Rat(a.n * b.d + b.n * a.d, a.d * b.d)
RSub(a, b) == Rat(a.n * b.d - b.n * a.d, a.d * b.d)
RMul(a, b) == Rat(a.n * b.n, a.d * b.d)
RDiv(a, b) == Rat(a.n * b.d, a.d * b.n)
RLess(a, b) == a.n * b.d < b.n * a.d
IsZero(a) == a.n = 0

\* Python's floor division of two numbers
RFloorDiv(a, b) == LET q == Rat(a.n * b.d, a.d * b.n) IN Num(q.n \div q.d)

\* sum of series[lo..hi], rows counted from 0
RECURSIVE SumRows(_, _, _)
SumRows(series, lo, hi) ==
    IF lo > hi THEN 0 ELSE series[hi + 1] + SumRows(series, lo, hi - 1)

\* IndicatorService._sma
sma(series, idx, window) ==
    IF idx < window - 1 THEN Num(0)
    ELSE Rat(SumRows(series, idx - window + 1, idx), window)

\* series.iloc[:i + 1].ewm(span=window, adjust=False).mean().iloc[-1] of a
\* series of numbers, rows counted from 0
RECURSIVE ewm(_, _, _)
ewm(values, i, span) ==
    IF i = 0 THEN values[1]
    ELSE RAdd(RMul(Rat(span - 1, span + 1), ewm(values, i - 1, span)),
              RMul(Rat(2, span + 1), values[i + 1]))

AsNumbers(series) == [i \in 1..Len(series) |-> Num(series[i])]

\* IndicatorService._ema
ema(series, idx, window) ==
    IF idx < window - 1 THEN Num(0)
    ELSE ewm(AsNumbers(series), idx, window)

\* IndicatorService._dif
dif(series, idx, short, long) ==
    IF idx < long THEN Num(0)
    ELSE RSub(ema(series, idx, short), ema(series, idx, long))

\* IndicatorService._dea
dea(series, idx, signal, short, long) ==
    IF idx < long + signal THEN Num(0)
    ELSE LET dif_series == [k \in 1..(idx - long + 1) |->
                               dif(series, long + k - 1, short, long)]
         IN  ewm(dif_series, idx - long, signal)

\* IndicatorService._macd
macd(series, idx, signal, short, long) ==
    LET f == dif(series, idx, short, long)
        a == dea(series, idx, signal, short, long)
    IN  IF IsZero(f) \/ IsZero(a) THEN Num(0)
        ELSE RMul(Num(2), RSub(f, a))

\* sum of the gains (up = TRUE) or losses of the last `period` rows up to row i
RECURSIVE SumMoves(_, _, _, _)
SumMoves(series, i, period, up) ==
    IF period = 0 THEN 0
    ELSE LET delta == IF i = 0 THEN 0 ELSE series[i + 1] - series[i]
             move == IF up THEN (IF delta > 0 THEN delta ELSE 0)
                     ELSE (IF delta < 0 THEN -delta ELSE 0)
         IN  move + SumMoves(series, i - 1, period - 1, up)

\* IndicatorService._rsi
rsi(series, idx, period) ==
    IF idx < period THEN Num(50)
    ELSE LET avg_gain == Rat(SumMoves(series, idx, period, TRUE), period)
             avg_loss == Rat(SumMoves(series, idx, period, FALSE), period)
         IN  IF IsZero(avg_loss)
             THEN (IF ~IsZero(avg_gain) THEN Num(100) ELSE Num(50))
             ELSE RSub(Num(100), RDiv(Num(100), RAdd(Num(1), RDiv(avg_gain, avg_loss))))

\* the sample variance (ddof=1) of series[lo..hi]; NaN (here 0) for one row
Variance(series, lo, hi) ==
    LET w == hi - lo + 1
        total == SumRows(series, lo, hi)
        dev(k) == series[k + 1] * w - total
        RECURSIVE Sq(_)
        Sq(k) == IF k < lo THEN 0 ELSE dev(k) * dev(k) + Sq(k - 1)
    IN  IF w < 2 THEN Num(0) ELSE Rat(Sq(hi), w * w * (w - 1))

\* IndicatorService._std
std(series, idx, window) ==
    IF idx < window - 1 THEN Num(0)
    ELSE Root(Variance(series, idx - window + 1, idx), FALSE)

\* IndicatorService._zscore
zscore(series, idx, window) ==
    IF idx < window THEN Num(0)
    ELSE LET mean == sma(series, idx, window)
             var == Variance(series, idx - window + 1, idx)
             diff == RSub(Num(series[idx + 1]), mean)
         IN  IF IsZero(var) THEN Num(0)
             ELSE Root(RDiv(RMul(diff, diff), var), diff.n < 0)

\* ------------------------------------------------------------------ expressions

\* A rule text is the sequence of its lexemes, blanks included; an ast node
\* is [kind, id, value, args] with kind one of Name, Constant, BinOp,
\* UnaryOp, Compare, BoolOp and Call.
Digits == <<"0", "1", "2", "3", "4", "5", "6", "7", "8", "9">>
IsNumber(t) == \E i \in 1..Len(Digits) : Digits[i] = t
NumberOf(t) == (CHOOSE i \in 1..Len(Digits) : Digits[i] = t) - 1
CompareOps == {">", "<", "==", ">=", "<="}
AddOps == {"+", "-"}
MultOps == {"*", "/", "//", "%"}
Punctuation == {"(", ")", ",", " ", "**"} \cup CompareOps \cup AddOps \cup MultOps
Keywords == {"and", "or", "not"}
IsName(t) == t \notin Punctuation /\ t \notin Keywords /\ ~IsNumber(t)

Name(id) == [kind |-> "Name", id |-> id, value |-> 0, args |-> <<>>]
Constant(v) == [kind |-> "Constant", id |-> "", value |-> v, args |-> <<>>]
BinOp(l, op, r) == [kind |-> "BinOp", id |-> op, value |-> 0, args |-> <<l, r>>]
UnaryOp(op, operand) == [kind |-> "UnaryOp", id |-> op, value |-> 0, args |-> <<operand>>]
Compare(l, op, r) == [kind |-> "Compare", id |-> op, value |-> 0, args |-> <<l, r>>]
Call(func, args) == [kind |-> "Call", id |-> func, value |-> 0, args |-> args]
BoolOp(op, values) == [kind |-> "BoolOp", id |-> op, value |-> 0, args |-> values]

Parsed(node, rest) == [node |-> node, rest |-> rest, ok |-> TRUE]
NoParse == [node |-> Name(""), rest |-> <<>>, ok |-> FALSE]
Starts(toks, ops) == toks # <<>> /\ Head(toks) \in ops

\* body applied to a value that is worked out once
Let(value, Body(_)) == CHOOSE out \in {Body(x) : x \in {value}} : TRUE

\* Python's grammar of and, or, not, comparisons, arithmetic, signs, powers,
\* calls and parentheses, by the binding strength of its operators: or 1,
\* and 2, not 3, comparisons 4, + - 5, * / // % 6, signs 7, ** 8
binding(op) ==
    CASE op = "or" -> 1
      [] op = "and" -> 2
      [] op \in CompareOps -> 4
      [] op \in AddOps -> 5
      [] op \in MultOps -> 6
      [] op = "**" -> 8

\* the weakest operator the right operand of op may hold unparenthesised
\* (the exponent of ** may carry a sign and is taken first)
right_binding(op) == IF op = "**" THEN 7 ELSE IF op \in CompareOps THEN 5 ELSE binding(op) + 1

BinaryOps == {"or", "and", "**"} \cup CompareOps \cup AddOps \cup MultOps

\* the node of left op right; chain names the operator whose unparenthesised
\* chain left closes: the operands of one chain of and, or of or, are the
\* values of one BoolOp
combine(left, op, right, chain) ==
    IF op \in {"and", "or"}
    THEN (IF chain = op THEN BoolOp(op, Append(left.args, right))
          ELSE BoolOp(op, <<left, right>>))
    ELSE IF op \in CompareOps THEN Compare(left, op, right)
    ELSE BinOp(left, op, right)

RECURSIVE parse_expr(_, _), parse_operand(_, _), parse_rest(_, _, _, _),
          parse_atom(_), parse_args(_, _)

\* the arguments of a call after its opening parenthesis
parse_args(toks, acc) ==
    IF Starts(toks, {")"}) /\ acc = <<>> THEN Parsed(Call("", acc), Tail(toks))
    ELSE Let(parse_expr(toks, 1), LAMBDA a :
             IF ~a.ok THEN NoParse
             ELSE IF Starts(a.rest, {","})
             THEN parse_args(Tail(a.rest), Append(acc, a.node))
             ELSE IF Starts(a.rest, {")"})
             THEN Parsed(Call("", Append(acc, a.node)), Tail(a.rest))
             ELSE NoParse)

\* a number, a parenthesised expression, a name or a call
parse_atom(toks) ==
    IF toks = <<>> THEN NoParse
    ELSE IF IsNumber(Head(toks)) THEN Parsed(Constant(NumberOf(Head(toks))), Tail(toks))
    ELSE IF Head(toks) = "("
    THEN Let(parse_expr(Tail(toks), 1), LAMBDA inner :
             IF inner.ok /\ Starts(inner.rest, {")"})
             THEN Parsed(inner.node, Tail(inner.rest))
             ELSE NoParse)
    ELSE IF ~IsName(Head(toks)) THEN NoParse
    ELSE IF Starts(Tail(toks), {"("})
    THEN Let(parse_args(Tail(Tail(toks)), <<>>), LAMBDA a :
             IF a.ok THEN Parsed(Call(Head(toks), a.node.args), a.rest) ELSE NoParse)
    ELSE Parsed(Name(Head(toks)), Tail(toks))

\* an operand where operators that bind weaker than least may not appear
\* unparenthesised: not, a sign, or an atom
parse_operand(toks, least) ==
    IF Starts(toks, {"not"} \cup AddOps)
    THEN LET own == IF Head(toks) = "not" THEN 3 ELSE 7
         IN  IF least > own THEN NoParse
             ELSE Let(parse_expr(Tail(toks), own), LAMBDA operand :
                      IF operand.ok
                      THEN Parsed(UnaryOp(Head(toks), operand.node), operand.rest)
                      ELSE NoParse)
    ELSE parse_atom(toks)

\* the operators and operands that follow left; a comparison that follows
\* a comparison (a chain a < b < c) is outside the grammar
parse_rest(left, toks, least, chain) ==
    IF ~Starts(toks, BinaryOps) THEN Parsed(left, toks)
    ELSE IF binding(Head(toks)) < least THEN Parsed(left, toks)
    ELSE IF Head(toks) \in CompareOps /\ chain = "compare" THEN NoParse
    ELSE Let(parse_expr(Tail(toks), right_binding(Head(toks))), LAMBDA right :
             IF ~right.ok THEN NoParse
             ELSE parse_rest(combine(left, Head(toks), right.node, chain), right.rest,
                             least,
                             IF Head(toks) \in CompareOps THEN "compare"
                             ELSE IF Head(toks) \in {"and", "or"} THEN Head(toks)
                             ELSE ""))

\* an expression of operators that bind at least as strongly as least
parse_expr(toks, least) ==
    Let(parse_operand(toks, least), LAMBDA first :
        IF first.ok THEN parse_rest(first.node, first.rest, least, "") ELSE NoParse)

\* the blanks inside a text separate lexemes and mean nothing else
WithoutBlanks(toks) == SelectSeq(toks, LAMBDA t : t # " ")

\* ast.parse(rule, mode='eval').body; ok is FALSE where Python raises
\* SyntaxError, as it does for a text that starts with a blank
\* (IndentationError)
ast_parse(rule) ==
    IF Starts(rule, {" "}) THEN NoParse
    ELSE Let(parse_expr(WithoutBlanks(rule), 1), LAMBDA p :
             IF p.ok /\ p.rest = <<>> THEN p ELSE NoParse)

\* ASTNodeHandler.OPERATOR_PRECEDENCE.get(type(op), 0)
OPERATOR_PRECEDENCE(op) ==
    IF op = "**" THEN 4
    ELSE IF op \in MultOps THEN 3
    ELSE IF op \in AddOps THEN 2
    ELSE IF op \in CompareOps THEN 1
    ELSE 0

\* ASTNodeHandler._needs_parentheses
needs_parentheses(child_node, parent_op, is_left) ==
    IF child_node.kind # "BinOp" THEN FALSE
    ELSE LET child_op_precedence == OPERATOR_PRECEDENCE(child_node.id)
             parent_op_precedence == OPERATOR_PRECEDENCE(parent_op)
         IN  \/ child_op_precedence < parent_op_precedence
             \/ /\ child_op_precedence = parent_op_precedence
                /\ \/ ~is_left /\ parent_op_precedence \in {2, 3}
                   \/ is_left /\ parent_op = "**"

\* ASTNodeHandler._get_operator_symbol: "not " for Not, the operator's
\* own text for the others
get_operator_symbol(op) == IF op = "not" THEN <<"not", " ">> ELSE <<op>>

Parenthesised(toks, needed) == IF needed THEN <<"(">> \o toks \o <<")">> ELSE toks

\* the texts of a call's arguments with sep between them
RECURSIVE JoinArgs(_, _)
JoinArgs(texts, sep) ==
    IF texts = <<>> THEN <<>>
    ELSE IF Len(texts) = 1 THEN texts[1]
    ELSE texts[1] \o sep \o JoinArgs(Tail(texts), sep)

\* astunparse.unparse(node).strip(): every operation in its own parentheses,
\* ", " between the arguments of a call
RECURSIVE unparse(_)
unparse(node) ==
    CASE node.kind = "Name" -> <<node.id>>
      [] node.kind = "Constant" -> <<Digits[node.value + 1]>>
      [] node.kind \in {"BinOp", "Compare"} ->
            <<"(">> \o unparse(node.args[1]) \o <<" ", node.id, " ">>
                    \o unparse(node.args[2]) \o <<")">>
      [] node.kind = "UnaryOp" ->
            <<"(", node.id, " ">> \o unparse(node.args[1]) \o <<")">>
      [] node.kind = "BoolOp" ->
            <<"(">>
            \o JoinArgs([i \in 1..Len(node.args) |-> unparse(node.args[i])],
                        <<" ", node.id, " ">>)
            \o <<")">>
      [] node.kind = "Call" ->
            <<node.id, "(">>
            \o JoinArgs([i \in 1..Len(node.args) |-> unparse(node.args[i])], <<",", " ">>)
            \o <<")">>

\* expr.replace(', ', ',')
RECURSIVE replace_comma_blank(_)
replace_comma_blank(toks) ==
    IF Len(toks) < 2 THEN toks
    ELSE IF toks[1] = "," /\ toks[2] = " "
    THEN <<",">> \o replace_comma_blank(Tail(Tail(toks)))
    ELSE <<Head(toks)>> \o replace_comma_blank(Tail(toks))

\* ASTNodeHandler._node_to_expr_simple
RECURSIVE node_to_expr_simple(_)
node_to_expr_simple(node) ==
    CASE node.kind = "Name" -> <<node.id>>
      [] node.kind = "Constant" -> <<Digits[node.value + 1]>>
      [] node.kind = "BinOp" ->
            Parenthesised(node_to_expr_simple(node.args[1]),
                          needs_parentheses(node.args[1], node.id, TRUE))
            \o <<node.id>>
            \o Parenthesised(node_to_expr_simple(node.args[2]),
                             needs_parentheses(node.args[2], node.id, FALSE))
      [] node.kind = "UnaryOp" ->
            get_operator_symbol(node.id) \o node_to_expr_simple(node.args[1])
      [] node.kind = "Call" ->
            <<node.id, "(">>
            \o JoinArgs([i \in 1..Len(node.args) |-> node_to_expr_simple(node.args[i])],
                        <<",">>)
            \o <<")">>
      [] OTHER -> unparse(node)

\* ASTNodeHandler.node_to_expr
node_to_expr(node) ==
    CASE node.kind \in {"Compare", "BinOp"} ->
            node_to_expr_simple(node.args[1]) \o <<" ", node.id, " ">>
            \o node_to_expr_simple(node.args[2])
      [] node.kind = "UnaryOp" ->
            get_operator_symbol(node.id) \o node_to_expr_simple(node.args[1])
      [] node.kind = "Call" -> replace_comma_blank(unparse(node))
      [] OTHER -> unparse(node)

\* the text as one string
RECURSIVE Text(_)
Text(toks) == IF toks = <<>> THEN "" ELSE Head(toks) \o Text(Tail(toks))

\* ------------------------------------------------------------------ evaluator

\* RuleParser builds its RuleCacheManager with max_size=1000.
ParserCacheSize == 1000

Max(a, b) == IF a > b THEN a ELSE b
Min(a, b) == IF a < b THEN a ELSE b

\* int(x) of a number: towards zero
IntOf(v) == IF v.n >= 0 THEN v.n \div v.d ELSE -((-v.n) \div v.d)

RNeg(a) == [a EXCEPT !.n = -a.n]
Sign(a) == IF a.n > 0 THEN 1 ELSE IF a.n < 0 THEN -1 ELSE 0
\* the square of a number, a root's included
Squared(a) == IF a.root THEN Rat(Abs(a.n), a.d) ELSE RMul(a, a)
\* a < b, roots included
RLessThan(a, b) ==
    IF Sign(a) # Sign(b) THEN Sign(a) < Sign(b)
    ELSE IF Sign(a) > 0 THEN RLess(Squared(a), Squared(b))
    ELSE IF Sign(a) < 0 THEN RLess(Squared(b), Squared(a))
    ELSE FALSE

RECURSIVE RPow(_, _)
RPow(a, k) == IF k = 0 THEN Num(1) ELSE RMul(a, RPow(a, k - 1))

\* RuleEvaluator.max_recursion_depth: 100 in the source, here the depth the
\* nested texts are built around
max_recursion_depth == 4

\* a parser built without a portfolio manager, and one built with a manager
\* whose total cost and quantity held of the table's symbol are given
NoPortfolio == [set |-> FALSE, cost |-> 0, quantity |-> 0]
Portfolio(cost, quantity) == [set |-> TRUE, cost |-> cost, quantity |-> quantity]

\* what an evaluation works on: the time cache of the parser's cache
\* manager, the indicator service's cache, the trace cells written, the
\* evaluator's recursion_counter and the context's portfolio manager
State(tc, ic, trace) ==
    [tc |-> tc, ic |-> ic, trace |-> trace, depth |-> 0, pm |-> NoPortfolio]

Returned(v, isbool, st) == [v |-> v, isbool |-> isbool, error |-> "", st |-> st]
Raised(error, st) == [v |-> Num(0), isbool |-> FALSE, error |-> error, st |-> st]
Bool(b) == IF b THEN Num(1) ELSE Num(0)

\* float('nan'), and bool(x) of a number: nan is true
nan == [n |-> 0, d |-> 0, root |-> FALSE]
isna(v) == v.d = 0
Truth(v) == isna(v) \/ ~IsZero(v)

\* the rows of the table
RowCount(data) == Len(data["close"])

\* context.data.columns: the columns of the price table and the columns
\* the trace made
Columns(data, trace) == DOMAIN data \cup {c.col : c \in trace}

Written(trace, col, row) == \E c \in trace : c.col = col /\ c.row = row
CellOf(trace, col, row) == (CHOOSE c \in trace : c.col = col /\ c.row = row).value

\* context.data[col].iloc[row] with pd.isna read as 0.0: the cell written
\* last, the price the table was built with where none was written, and
\* NaN in a column the trace made
value_at(data, trace, col, row) ==
    IF Written(trace, col, row)
    THEN (IF isna(CellOf(trace, col, row)) THEN Num(0) ELSE CellOf(trace, col, row))
    ELSE IF col \in DOMAIN data THEN Num(data[col][row + 1])
    ELSE Num(0)

\* context.data[col] as the indicator service reads it; the cells written
\* into it are truth values and whole numbers
series_of(data, trace, col) ==
    [i \in 1..RowCount(data) |-> IntOf(value_at(data, trace, col, i - 1))]

\* self.data.at[index, col] = value, the column made first where it is new
write_cell(trace, col, row, value) ==
    {c \in trace : ~(c.col = col /\ c.row = row)}
        \cup {[col |-> col, row |-> row, value |-> value]}

\* ResultStorageManager._clean_rule_name on the lexemes of a text
RECURSIVE collapse(_)
collapse(toks) ==
    IF Len(toks) < 2 THEN toks
    ELSE IF toks[1] = "_" /\ toks[2] = "_" THEN collapse(Tail(toks))
    ELSE <<Head(toks)>> \o collapse(Tail(toks))

RECURSIVE strip_left(_)
strip_left(toks) ==
    IF toks # <<>> /\ Head(toks) = "_" THEN strip_left(Tail(toks)) ELSE toks

RECURSIVE strip_right(_)
strip_right(toks) ==
    IF toks # <<>> /\ toks[Len(toks)] = "_"
    THEN strip_right(SubSeq(toks, 1, Len(toks) - 1)) ELSE toks

clean_label(toks) ==
    Text(strip_right(strip_left(collapse(
        [i \in 1..Len(toks) |-> IF toks[i] \in {"(", ")", " "} THEN "_" ELSE toks[i]]))))

\* ResultStorageManager.save_expression_result (a text that is a number is
\* not stored)
save_expression_result(st, expr, value, row) ==
    IF Len(expr) = 1 /\ IsNumber(expr[1]) THEN st
    ELSE [st EXCEPT !.trace = write_cell(st.trace, Text(expr), row, value)]

\* ResultStorageManager.save_indicator_result
save_indicator_result(st, func_name, args_str, value, row) ==
    [st EXCEPT !.trace =
        write_cell(st.trace, clean_label(<<func_name, "(">> \o args_str \o <<")">>),
                   row, value)]

\* ResultStorageManager.save_rule_result as the evaluator calls it
save_rule_cell(st, rule, value, row) ==
    [st EXCEPT !.trace = write_cell(st.trace, clean_label(rule), row, value)]

\* RuleCacheManager.get_time_dependent_key
get_time_dependent_key(func_name, idx, args_str, period) ==
    [f |-> func_name, i |-> idx, a |-> args_str, p |-> period]

\* RuleCacheManager.set_time_cached of the parser's manager
parser_set_time_cached(c, key, value) ==
    LET added == Append(Remove(c, key), [key |-> key, value |-> value])
    IN  IF Len(added) > ParserCacheSize THEN Tail(added) ELSE added

\* node.func.id.upper()
upper(id) ==
    CASE id = "ref" -> "REF"
      [] id = "sma" -> "SMA"
      [] OTHER -> id

\* RuleEvaluator._get_min_data_requirement
get_min_data_requirement(func_name, args) ==
    LET arg(k) == IntOf(args[k])
    IN  CASE func_name = "SMA" -> IF Len(args) > 0 THEN arg(1) ELSE 1
          [] func_name = "RSI" -> IF Len(args) > 0 THEN arg(1) ELSE 14
          [] func_name = "MACD" ->
                Max(Max(IF Len(args) > 0 THEN arg(1) ELSE 12,
                        IF Len(args) > 1 THEN arg(2) ELSE 26),
                    IF Len(args) > 2 THEN arg(3) ELSE 9)
          [] func_name = "STD" -> IF Len(args) > 0 THEN arg(1) ELSE 2
          [] func_name \in {"ZSCORE", "Z_SCORE"} -> IF Len(args) > 0 THEN arg(1) ELSE 2
          [] func_name = "EMA" -> IF Len(args) > 0 THEN arg(1) ELSE 2
          [] func_name = "DIF" -> IF Len(args) > 1 THEN arg(2) ELSE 26
          [] func_name = "DEA" ->
                (IF Len(args) > 2 THEN arg(3) ELSE 26) + (IF Len(args) > 0 THEN arg(1) ELSE 9)
          [] OTHER -> 1

IndicatorNames == {"SMA", "RSI", "MACD", "STD", "ZSCORE", "Z_SCORE", "EMA", "DIF", "DEA"}

\* how many arguments after the series and the index the routine takes
Arity(func_name) ==
    CASE func_name \in {"SMA", "RSI", "STD", "ZSCORE", "Z_SCORE", "EMA"} -> {1}
      [] func_name = "DIF" -> {2}
      [] func_name = "DEA" -> {3}
      [] func_name = "MACD" -> {0, 1, 2, 3}

\* the routine calculate_indicator routes func_name to
route(func_name, series, idx, args) ==
    LET arg(k) == IntOf(args[k])
    IN  CASE func_name = "SMA" -> sma(series, idx, arg(1))
          [] func_name = "RSI" -> rsi(series, idx, arg(1))
          [] func_name = "STD" -> std(series, idx, arg(1))
          [] func_name \in {"ZSCORE", "Z_SCORE"} -> zscore(series, idx, arg(1))
          [] func_name = "EMA" -> ema(series, idx, arg(1))
          [] func_name = "DIF" -> dif(series, idx, arg(1), arg(2))
          [] func_name = "DEA" -> dea(series, idx, arg(1), arg(2), arg(3))
          [] func_name = "MACD" ->
                macd(series, idx,
                     IF Len(args) > 0 THEN arg(1) ELSE 9,
                     IF Len(args) > 1 THEN arg(2) ELSE 12,
                     IF Len(args) > 2 THEN arg(3) ELSE 26)

HasCached(ic, key) == \E e \in ic : e.key = key
Cached(ic, key) == (CHOOSE e \in ic : e.key = key).value

\* IndicatorService.calculate_indicator: [v, error, ic]
calculate_indicator(func_name, series, idx, args, ic) ==
    LET cache_key == [f |-> func_name, i |-> idx, args |-> args]
    IN  IF idx < 0 \/ idx >= Len(series)
        THEN [v |-> Num(0), error |-> "IndexError", ic |-> ic]
        ELSE IF HasCached(ic, cache_key)
        THEN [v |-> Cached(ic, cache_key), error |-> "", ic |-> ic]
        ELSE IF func_name \notin IndicatorNames
        THEN [v |-> Num(0), error |-> "ValueError", ic |-> ic]
        ELSE IF Len(args) \notin Arity(func_name)
        THEN [v |-> Num(0), error |-> "TypeError", ic |-> ic]
        ELSE LET result == route(func_name, series, idx, args)
             IN  [v |-> result, error |-> "",
                  ic |-> ic \cup {[key |-> cache_key, value |-> result]}]

\* the comparison ASTNodeHandler.get_operator_func gives for op
compare_func(op, l, r) ==
    CASE op = ">" -> RLessThan(r, l)
      [] op = "<" -> RLessThan(l, r)
      [] op = "==" -> l = r
      [] op = ">=" -> ~RLessThan(l, r)
      [] op = "<=" -> ~RLessThan(r, l)

\* A division that is never taken to divide by zero.
never_by_zero(op, right) == FALSE

\* isinstance(node.op, (ast.Div, ast.FloorDiv)) and right == 0
divides_by_zero(op, right) == op \in {"/", "//"} /\ IsZero(right)

\* the arithmetic ASTNodeHandler.get_operator_func gives for op, on
\* numbers that are no roots and for whole exponents: [v, error]
op_func(op, l, r) ==
    IF op \in {"/", "//", "%"} /\ IsZero(r)
    THEN [v |-> Num(0), error |-> "ZeroDivisionError"]
    ELSE [error |-> "",
          v |-> CASE op = "+" -> RAdd(l, r)
                  [] op = "-" -> RSub(l, r)
                  [] op = "*" -> RMul(l, r)
                  [] op = "/" -> RDiv(l, r)
                  [] op = "//" -> RFloorDiv(l, r)
                  [] op = "%" -> RSub(l, RMul(r, RFloorDiv(l, r)))
                  [] op = "**" /\ r.d = 1 /\ r.n >= 0 -> RPow(l, r.n)]

\* target_index = max(0, min(int(original_index) - period, len(context.data) - 1))
target_index(idx, period, rows) == Max(0, Min(idx - period, rows - 1))

\* the k-th smallest of the values, k from 1
Kth(values, k) ==
    CHOOSE v \in {values[i] : i \in DOMAIN values} :
        /\ Cardinality({i \in DOMAIN values : values[i] < v}) < k
        /\ Cardinality({i \in DOMAIN values : values[i] <= v}) >= k

\* Series.quantile(q) with linear interpolation, 0 <= q <= 1
quantile_of(values, q) ==
    LET rank_position == RMul(q, Num(Len(values) - 1))
        below == rank_position.n \div rank_position.d
        fraction == RSub(rank_position, Num(below))
    IN  IF IsZero(fraction) THEN Num(Kth(values, below + 1))
        ELSE RAdd(Num(Kth(values, below + 1)),
                  RMul(fraction, Num(Kth(values, below + 2) - Kth(values, below + 1))))

\* str(x) of a float that is a whole number or a half
float_text(x) ==
    IF x.d = 1 THEN <<Digits[x.n + 1], ".", "0">>
    ELSE <<Digits[(x.n \div x.d) + 1], ".", "5">>

RECURSIVE evaluate_at(_, _, _, _, _), Eval(_, _, _, _), eval_args(_, _, _, _, _),
          eval_ref(_, _, _, _), eval_indicator(_, _, _, _, _), eval_bin_op(_, _, _, _),
          eval_compare(_, _, _, _), eval_bool_op(_, _, _, _), eval_q(_, _, _, _),
          eval_sqrt(_, _, _, _), eval_function_call(_, _, _, _)

\* [self._eval(arg, context) for arg in args]: the values so far in acc
eval_args(args, data, idx, st, acc) ==
    IF args = <<>>
    THEN [args |-> [i \in 1..Len(acc) |-> acc[i].v],
          bools |-> [i \in 1..Len(acc) |-> acc[i].isbool], error |-> "", st |-> st]
    ELSE Let(Eval(Head(args), data, idx, st), LAMBDA a :
             IF a.error # ""
             THEN [args |-> <<>>, bools |-> <<>>, error |-> a.error, st |-> a.st]
             ELSE eval_args(Tail(args), data, idx, a.st,
                            Append(acc, [v |-> a.v, isbool |-> a.isbool])))

\* RuleEvaluator._eval_compare
eval_compare(node, data, idx, st) ==
    Let(Eval(node.args[1], data, idx, st), LAMBDA left :
        IF left.error # "" THEN left
        ELSE Let(Eval(node.args[2], data, idx, left.st), LAMBDA right :
                 IF right.error # "" THEN right
                 ELSE Let(Bool(compare_func(node.id, left.v, right.v)), LAMBDA result :
                          Returned(result, TRUE,
                                   save_expression_result(right.st, node_to_expr(node),
                                                          result, idx)))))

\* RuleEvaluator._eval_bool_op: every operand is evaluated, then
\* operator.and_ or operator.or_ is called with all of them; each takes two
\* operands and works on truth values, not on floats
eval_bool_op(node, data, idx, st) ==
    Let(eval_args(node.args, data, idx, st, <<>>), LAMBDA values :
        IF values.error # "" THEN Raised(values.error, values.st)
        ELSE IF Len(values.args) # 2 \/ \E i \in 1..2 : ~values.bools[i]
        THEN Raised("TypeError", values.st)
        ELSE Let(Bool(IF node.id = "and"
                      THEN Truth(values.args[1]) /\ Truth(values.args[2])
                      ELSE Truth(values.args[1]) \/ Truth(values.args[2])),
                 LAMBDA result :
                 Returned(result, TRUE,
                          save_expression_result(values.st, node_to_expr(node),
                                                 result, idx))))

\* RuleEvaluator._eval_q
eval_q(node, data, idx, st) ==
    IF Len(node.args) # 3 THEN Raised("ValueError", st)
    ELSE Let(eval_args(Tail(node.args), data, idx, st, <<>>), LAMBDA a :
             IF a.error # "" THEN Raised(a.error, a.st)
             ELSE IF RLess(a.args[1], Num(0)) \/ RLess(Num(1), a.args[1])
             THEN Raised("ValueError", a.st)
             ELSE IF IntOf(a.args[2]) <= 0 THEN Raised("ValueError", a.st)
             ELSE Let([column |-> Text(node_to_expr(node.args[1])),
                       period |-> IntOf(a.args[2])],
                      LAMBDA q :
                      IF idx >= q.period - 1 /\ q.column \notin Columns(data, a.st.trace)
                      THEN Raised("KeyError", a.st)
                      ELSE Let(IF idx < q.period - 1 THEN nan
                               ELSE quantile_of(
                                        SubSeq(series_of(data, a.st.trace, q.column),
                                               idx - q.period + 2, idx + 1),
                                        a.args[1]),
                               LAMBDA result :
                               Returned(result, FALSE,
                                   save_expression_result(
                                       a.st,
                                       <<"Q", "(", q.column, ",">> \o float_text(a.args[1])
                                           \o <<",", Digits[q.period + 1], ")">>,
                                       result, idx)))))

\* RuleEvaluator._eval_sqrt for n of 0, 1 and 2, the square root taken of
\* a number that is no root itself
eval_sqrt(node, data, idx, st) ==
    IF Len(node.args) # 2 THEN Raised("ValueError", st)
    ELSE Let(eval_args(node.args, data, idx, st, <<>>), LAMBDA a :
             IF a.error # "" THEN Raised(a.error, a.st)
             ELSE Returned(CASE IntOf(a.args[2]) % 2 = 0 /\ a.args[1].n < 0 -> Num(0)
                             [] IsZero(a.args[2]) -> Num(1)
                             [] a.args[2] = Num(1) -> a.args[1]
                             [] a.args[2] = Num(2) /\ ~a.args[1].root ->
                                   Root(a.args[1], FALSE),
                           FALSE, a.st))

\* RuleEvaluator._eval_function_call: the depth counted around the call
eval_function_call(node, data, idx, st) ==
    IF st.depth + 1 > max_recursion_depth THEN Raised("RecursionError", st)
    ELSE LET inside == [st EXCEPT !.depth = @ + 1]
             func_name == upper(node.id)
         IN  [(CASE func_name = "REF" -> eval_ref(node, data, idx, inside)
                 [] func_name = "Q" -> eval_q(node, data, idx, inside)
                 [] func_name = "SQRT" -> eval_sqrt(node, data, idx, inside)
                 [] OTHER -> eval_indicator(node, data, idx, inside, func_name))
              EXCEPT !.st.depth = @ - 1]

\* RuleEvaluator._eval_bin_op
eval_bin_op(node, data, idx, st) ==
    Let(Eval(node.args[1], data, idx, st), LAMBDA left :
        IF left.error # "" THEN left
        ELSE Let(Eval(node.args[2], data, idx, left.st), LAMBDA right :
                 IF right.error # "" THEN right
                 ELSE IF divides_by_zero(node.id, right.v)
                 THEN Returned(Num(0), FALSE, right.st)
                 ELSE Let(op_func(node.id, left.v, right.v), LAMBDA result :
                          IF result.error # "" THEN Raised(result.error, right.st)
                          ELSE Returned(result.v, FALSE,
                                        save_expression_result(right.st, node_to_expr(node),
                                                               result.v, idx)))))

\* RuleEvaluator._eval_ref once the period is known: the evaluation at the
\* current step where the text has a call, the cache, the evaluation at the
\* target step
ref_value(expr_str, period, data, idx, st) ==
    Let(IF \E i \in 1..Len(expr_str) : expr_str[i] = "("
        THEN Let(evaluate_at(expr_str, data, idx, "ref", st), LAMBDA original :
                 IF original.error # "" THEN original
                 ELSE [original EXCEPT !.st.trace =
                          write_cell(@, Text(expr_str), idx, original.v)])
        ELSE Returned(Num(0), FALSE, st),
        LAMBDA stored :
        IF stored.error # "" THEN stored
        ELSE Let(get_time_dependent_key("REF", idx, Text(expr_str), period),
                 LAMBDA cache_key :
                 IF HasKey(stored.st.tc, cache_key)
                 THEN Returned(Entry(stored.st.tc, cache_key).value, FALSE,
                               [stored.st EXCEPT !.tc = move_to_end(@, cache_key)])
                 ELSE Let(evaluate_at(expr_str, data,
                                      target_index(idx, period, RowCount(data)),
                                      "ref", stored.st),
                          LAMBDA result :
                          IF result.error # "" THEN result
                          ELSE Returned(result.v, FALSE,
                                        [result.st EXCEPT !.tc =
                                            parser_set_time_cached(@, cache_key, result.v)]))))

\* RuleEvaluator._eval_ref
eval_ref(node, data, idx, st) ==
    IF Len(node.args) # 2 THEN Raised("ValueError", st)
    ELSE Let(Eval(node.args[2], data, idx, st), LAMBDA p :
             IF p.error # "" THEN p
             ELSE IF IntOf(p.v) < 0 THEN Raised("ValueError", p.st)
             ELSE Let(node_to_expr(node.args[1]), LAMBDA expr_str :
                      ref_value(expr_str, IntOf(p.v), data, idx, p.st)))

\* RuleEvaluator._eval_indicator after the cache missed: the arguments are
\* checked, the rows counted, the indicator computed, cached and stored
indicator_value(node, data, idx, st, func_name, data_column, args_str_full, cache_key) ==
    Let(eval_args(Tail(node.args), data, idx, st, <<>>), LAMBDA checked :
        IF checked.error # "" THEN Raised(checked.error, checked.st)
        ELSE IF \E k \in 1..Len(checked.args) : checked.args[k].n <= 0
        THEN Raised("ValueError", checked.st)
        ELSE Let(eval_args(Tail(node.args), data, idx, checked.st, <<>>), LAMBDA needed :
                 IF idx < get_min_data_requirement(func_name, needed.args)
                 THEN Returned(Num(0), FALSE, needed.st)
                 ELSE Let(eval_args(Tail(node.args), data, idx, needed.st, <<>>),
                          LAMBDA passed :
                          Let(calculate_indicator(func_name,
                                                  series_of(data, st.trace, data_column),
                                                  idx, passed.args, passed.st.ic),
                              LAMBDA result :
                              IF result.error # ""
                              THEN Raised(result.error, [passed.st EXCEPT !.ic = result.ic])
                              ELSE Returned(result.v, FALSE,
                                       save_indicator_result(
                                           [passed.st EXCEPT
                                               !.ic = result.ic,
                                               !.tc = parser_set_time_cached(@, cache_key,
                                                                             result.v)],
                                           func_name, args_str_full, result.v, idx))))))

\* RuleEvaluator._eval_indicator
eval_indicator(node, data, idx, st, func_name) ==
    IF node.args = <<>> THEN Raised("IndexError", st)
    ELSE Let(node_to_expr(node.args[1]), LAMBDA column_text :
             IF Text(column_text) \notin Columns(data, st.trace)
             THEN Raised("ValueError", st)
             ELSE Let(JoinArgs(<<column_text>>
                               \o [i \in 1..(Len(node.args) - 1) |->
                                      node_to_expr(node.args[i + 1])],
                               <<",">>),
                      LAMBDA args_str_full :
                      Let(get_time_dependent_key(func_name, idx, Text(args_str_full), NONE),
                          LAMBDA cache_key :
                          IF HasKey(st.tc, cache_key)
                          THEN Returned(Entry(st.tc, cache_key).value, FALSE,
                                        [st EXCEPT !.tc = move_to_end(@, cache_key)])
                          ELSE indicator_value(node, data, idx, st, func_name,
                                               Text(column_text), args_str_full,
                                               cache_key))))

\* ResultStorageManager.save_variable_result
save_variable_result(st, var_name, value, row) ==
    [st EXCEPT !.trace = write_cell(st.trace, var_name, row, value)]

\* RuleEvaluator._eval_variable
eval_variable(node, data, idx, st) ==
    IF node.id = "COST" /\ st.pm.set
    THEN Returned(Num(st.pm.cost), FALSE,
                  save_variable_result(st, "COST", Num(st.pm.cost), idx))
    ELSE IF node.id = "POSITION" /\ st.pm.set
    THEN Let(IF "code" \in DOMAIN data THEN Num(st.pm.quantity) ELSE Num(0),
             LAMBDA result :
             Returned(result, FALSE, save_variable_result(st, "POSITION", result, idx)))
    ELSE IF node.id \notin Columns(data, st.trace) THEN Raised("ValueError", st)
    ELSE Returned(value_at(data, st.trace, node.id, idx), FALSE, st)

\* RuleEvaluator._eval, with _eval_constant and _eval_unary_op
Eval(node, data, idx, st) ==
    CASE node.kind = "Compare" -> eval_compare(node, data, idx, st)
      [] node.kind = "BoolOp" -> eval_bool_op(node, data, idx, st)
      [] node.kind = "Call" -> eval_function_call(node, data, idx, st)
      [] node.kind = "Name" -> eval_variable(node, data, idx, st)
      [] node.kind = "BinOp" -> eval_bin_op(node, data, idx, st)
      [] node.kind = "Constant" -> Returned(Num(node.value), FALSE, st)
      [] node.kind = "UnaryOp" ->
            Let(Eval(node.args[1], data, idx, st), LAMBDA operand :
                IF operand.error # "" \/ node.id = "+" THEN operand
                ELSE IF node.id = "not"
                THEN Returned(Bool(~Truth(operand.v)), TRUE, operand.st)
                ELSE [operand EXCEPT !.v = RNeg(@)])

\* RuleEvaluator.evaluate_at
evaluate_at(rule, data, idx, mode, st) ==
    IF WithoutBlanks(rule) = <<>> THEN Returned(Num(0), mode = "rule", st)
    ELSE Let(ast_parse(rule), LAMBDA tree :
             IF ~tree.ok THEN Raised("SyntaxError", st)
             ELSE Let(Eval(tree.node, data, idx, [st EXCEPT !.depth = 0]),
                      LAMBDA result :
                      IF result.error = "RecursionError" THEN result
                      ELSE IF result.error # "" THEN Raised("SyntaxError", result.st)
                      ELSE IF mode = "rule"
                      THEN Returned(Bool(Truth(result.v)), TRUE,
                                    save_rule_cell(result.st, rule,
                                                   Bool(Truth(result.v)), idx))
                      ELSE result))

\* Calls made on one parser.
MaxEvals == 2

\* the texts given to the parser
Rules == <<
    <<"close">>,
    <<"SMA", "(", "close", ",", "5", ")">>,
    <<"SMA", "(", "close", ",", " ", "2", ")">>,
    <<"SMA", "(", "volume", ",", "2", ")">>,
    <<"REF", "(", "close", ",", "1", ")">>,
    <<"REF", "(", "SMA", "(", "close", ",", "5", ")", ",", "1", ")">>,
    <<"REF", "(", "SMA", "(", "close", ",", "2", ")", ",", "3", ")">>,
    <<"REF", "(", "(", "close", "+", "volume", ")", "*", "2", ",", "1", ")">>,
    <<"REF", "(", "REF", "(", "close", ",", "1", ")", ",", "1", ")">>,
    <<"REF", "(", "close", "-", "volume", ",", "2", ")">>,
    <<"RSI", "(", "close", ",", "2", ")">>,
    <<"EMA", "(", "close", ",", "2", ")">>,
    <<"STD", "(", "close", ",", "2", ")">>,
    <<"Z_SCORE", "(", "close", ",", "2", ")">>,
    <<"MACD", "(", "close", ",", "1", ",", "1", ",", "2", ")">>,
    <<"DIF", "(", "close", ",", "1", ",", "2", ")">>,
    <<"DEA", "(", "close", ",", "1", ",", "1", ",", "2", ")">>,
    <<"close", " ", "/", " ", "volume">>,
    <<"close", " ", "//", " ", "volume">>,
    <<"close", "/", "volume", " ", ">", " ", "1">>,
    <<"close", "//", "0">>,
    <<"SMA", "(", "close", ",", "0", ")">>,
    <<"close", " ", "+">>,
    <<"REF", "(", "close", ",", "0", "-", "1", ")">> >>

\* the price tables a parser is built over
EvalTables == <<
    [close |-> <<10, 20, 30, 40, 50, 60>>, volume |-> <<0, 3, 0, 1, 2, 2>>],
    [close |-> <<3, 0, 2>>, volume |-> <<1, 0, 5>>],
    [close |-> <<3, 4>>, volume |-> <<1, 2>>, code |-> <<"A", "A">>] >>

Modes == {"rule", "ref"}

NoEvaluation ==
    [rule |-> 0, step |-> 0, mode |-> "ref", v |-> Num(0), isbool |-> FALSE, error |-> ""]

\* a call nested k deep: func(func(... func(close, 1) ..., 1), 1)
RECURSIVE Nested(_, _)
Nested(func, k) ==
    IF k = 0 THEN <<"close">>
    ELSE <<func, "(">> \o Nested(func, k - 1) \o <<",", "1", ")">>

\* texts of boolean operators, of calls the evaluator must refuse and of
\* texts that are no expressions
LogicRules == <<
    <<"close", " ", ">", " ", "1", " ", "and", " ", "volume", " ", ">", " ", "1">>,
    <<"close", " ", ">", " ", "1", " ", "or", " ", "volume", " ", ">", " ", "1">>,
    <<"close", ">", "1", " ", "and", " ", "volume", ">", "1", " ", "and", " ",
      "close", ">", "volume">>,
    <<"close", ">", "1", " ", "or", " ", "volume", ">", "1", " ", "or", " ",
      "close", ">", "2">>,
    <<"(", "close", ">", "1", " ", "and", " ", "volume", ">", "1", ")", " ", "or", " ",
      "close", ">", "2">>,
    <<"not", " ", "close", ">", "1">>,
    <<>>,
    <<" ", " ">>,
    <<" ", "close">>,
    <<"close", " ", "+">>,
    <<"open", " ", ">", " ", "1">>,
    <<"SMA", "(", "open", ",", "2", ")">>,
    <<"REF", "(", "open", ",", "1", ")">>,
    <<"Q", "(", "open", ",", "1", ",", "3", ")">>,
    <<"FOO", "(", "close", ",", "2", ")">>,
    <<"SMA", "(", "close", ")">>,
    <<"SMA", "(", "close", ",", "2", ",", "3", ")">>,
    <<"REF", "(", "close", ")">>,
    <<"SMA", "(", "close", ",", "0", "-", "1", ")">>,
    <<"Q", "(", "close", ",", "2", ",", "3", ")">>,
    <<"Q", "(", "close", ",", "1", ",", "0", ")">>,
    <<"Q", "(", "close", ",", "1", "/", "2", ",", "2", ")">>,
    <<"Q", "(", "close", ",", "1", ")">>,
    <<"close", " ", ">", " ", "SMA", "(", "close", ",", "2", ")">>,
    <<"REF", "(", "close", ",", "1", ")", " ", ">", " ", "1">> >>

\* calls nested up to and beyond the depth the evaluator allows
DepthRules == <<
    Nested("SQRT", max_recursion_depth),
    Nested("SQRT", max_recursion_depth + 1),
    <<"REF", "(">> \o Nested("SQRT", max_recursion_depth) \o <<",", "1", ")">>,
    <<"REF", "(">> \o Nested("SQRT", max_recursion_depth + 1) \o <<",", "1", ")">>,
    Nested("REF", 3),
    <<"SQRT", "(">> \o Nested("REF", 2) \o <<",", "2", ")">> >>

\* texts that read the portfolio
PortfolioRules == <<
    <<"COST">>,
    <<"POSITION">>,
    <<"POSITION", " ", ">", " ", "0">>,
    <<"COST", "/", "POSITION">>,
    <<"REF", "(", "COST", ",", "0", ")">>,
    <<"REF", "(", "POSITION", ",", "1", ")">>,
    <<"REF", "(", "close", ",", "1", ")">> >>

\* the list of texts a name stands for
RuleList(name) ==
    CASE name = "indicators" -> Rules
      [] name = "logic" -> LogicRules
      [] name = "depth" -> DepthRules
      [] name = "portfolio" -> PortfolioRules

\* RuleParser.evaluate_at(rule, index), and parse(rule, mode) after
\* current_index is set
Evaluate ==
    /\ ev_count < MaxEvals
    /\ \E r \in 1..Len(RuleList(ev_rules)), s \in 0..(RowCount(ev_data) - 1),
          mode \in Modes :
          \E result \in {evaluate_at(RuleList(ev_rules)[r], ev_data, s, mode,
                                     [State(ev_time_cache, ev_service_cache, ev_trace)
                                         EXCEPT !.pm = ev_portfolio])} :
              /\ ev_time_cache' = result.st.tc
              /\ ev_service_cache' = result.st.ic
              /\ ev_trace' = result.st.trace
              /\ ev_last' = [rule |-> r, step |-> s, mode |-> mode, v |-> result.v,
                             isbool |-> result.isbool, error |-> result.error]
    /\ ev_count' = ev_count + 1
    /\ UNCHANGED <<evalOthers, ev_data, ev_rules, ev_portfolio, ev_checked>>

\* RuleParser.clear_cache
ParserClearCache ==
    /\ ev_time_cache # <<>>
    /\ ev_time_cache' = <<>>
    /\ UNCHANGED <<evalOthers, ev_data, ev_service_cache, ev_trace, ev_last, ev_count,
                   ev_rules, ev_portfolio, ev_checked>>

\* A check that takes every text that is not empty for an expression.
accepts_all(rule) ==
    IF WithoutBlanks(rule) = <<>> THEN [ok |-> FALSE, message |-> "rule must not be empty"]
    ELSE [ok |-> TRUE, message |-> "syntax correct"]

\* RuleParser.validate_syntax; the messages are given in English
validate_syntax(rule) ==
    IF WithoutBlanks(rule) = <<>> THEN [ok |-> FALSE, message |-> "rule must not be empty"]
    ELSE IF ast_parse(rule).ok THEN [ok |-> TRUE, message |-> "syntax correct"]
    ELSE [ok |-> FALSE, message |-> "rule syntax error"]

NoCheck == [made |-> FALSE, call |-> 0, rule |-> 0, ok |-> FALSE, message |-> ""]

\* a call of the static method RuleParser.validate_syntax
ValidateSyntax ==
    /\ ev_count < MaxEvals
    /\ \E r \in 1..Len(RuleList(ev_rules)) :
          \E result \in {validate_syntax(RuleList(ev_rules)[r])} :
              ev_checked' = [made |-> TRUE, call |-> ev_count + 1, rule |-> r,
                             ok |-> result.ok, message |-> result.message]
    /\ ev_count' = ev_count + 1
    /\ UNCHANGED <<evalOthers, ev_data, ev_time_cache, ev_service_cache, ev_trace,
                   ev_last, ev_rules, ev_portfolio>>

\* Total costs and quantities a portfolio can come to.
MaxHolding == 2

\* the portfolio manager fills an order: the total cost and the quantity
\* held of the table's symbol change
PortfolioChange ==
    /\ ev_portfolio.set
    /\ \E cost \in 0..MaxHolding, quantity \in 0..MaxHolding :
          /\ Portfolio(cost, quantity) # ev_portfolio
          /\ (quantity = 0) = (cost = 0)
          /\ ev_portfolio' = Portfolio(cost, quantity)
    /\ UNCHANGED <<evalOthers, ev_data, ev_time_cache, ev_service_cache, ev_trace,
                   ev_last, ev_count, ev_rules, ev_checked>>

EvalFresh ==
    /\ ev_time_cache = <<>>
    /\ ev_service_cache = {}
    /\ ev_trace = {}
    /\ ev_last = NoEvaluation
    /\ ev_count = 0
    /\ ev_checked = NoCheck

EvalInit ==
    /\ \E t \in 1..2 : ev_data = EvalTables[t]
    /\ ev_rules = "indicators"
    /\ ev_portfolio = NoPortfolio
    /\ EvalFresh

EvalFixed ==
    /\ ev_data = EvalTables[1]
    /\ ev_rules = "indicators"
    /\ ev_portfolio = NoPortfolio
    /\ EvalFresh

EvalNext == Evaluate \/ ParserClearCache

\* a parser whose caller validates boolean, ill-formed and refused texts
\* and evaluates them
LogicInit ==
    /\ ev_data = EvalTables[2]
    /\ ev_rules = "logic"
    /\ ev_portfolio = NoPortfolio
    /\ EvalFresh

LogicNext == Evaluate \/ ValidateSyntax

\* a parser given deeply nested calls
DepthInit ==
    /\ ev_data = EvalTables[2]
    /\ ev_rules = "depth"
    /\ ev_portfolio = NoPortfolio
    /\ EvalFresh

\* a parser built with a portfolio manager over a table with a code column
PortfolioInit ==
    /\ ev_data = EvalTables[3]
    /\ ev_rules = "portfolio"
    /\ ev_portfolio = Portfolio(0, 0)
    /\ EvalFresh

PortfolioNext == Evaluate \/ PortfolioChange \/ ParserClearCache

\* ------------------------------------------------------------------ ranker

\* Rows of each symbol's table in the cross-sectional snapshot.
RankRows == 2
\* Largest value of a cell of the ranked field (NONE is a missing value).
MaxRankValue == 2

RankSymbols == {"A", "B", "C"}
\* a current symbol outside every snapshot, and no current symbol
OtherSymbol == "Z"
NoSymbol == ""

\* the snapshots: data_dict as its items in insertion order, each a symbol
\* and the rows of its field
RankCells == {NONE} \cup 1..MaxRankValue
RankItems == [symbol : RankSymbols, rows : [1..RankRows -> RankCells]]
Snapshots ==
    {<<>>} \cup {<<a>> : a \in RankItems}
    \cup {p \in RankItems \X RankItems : p[1].symbol # p[2].symbol}
    \cup {<<a, b, c>> : a \in {x \in RankItems : x.symbol = "A"},
                        b \in {x \in RankItems : x.symbol = "C"},
                        c \in {x \in RankItems : x.symbol = "B"}}

\* CrossSectionalRanker._get_field_value_at_current_time of an item
field_value_at(item, idx) ==
    IF 0 <= idx /\ idx < Len(item.rows) THEN item.rows[idx + 1] ELSE NONE

\* the values dict of rank: the items that have a value, in insertion order
RECURSIVE rank_values(_, _)
rank_values(data_dict, idx) ==
    IF data_dict = <<>> THEN <<>>
    ELSE LET value == field_value_at(Head(data_dict), idx)
             rest == rank_values(Tail(data_dict), idx)
         IN  IF value # NONE
             THEN <<[symbol |-> Head(data_dict).symbol, value |-> value]>> \o rest
             ELSE rest

\* sorted(values.items(), key=lambda x: x[1], reverse=True): a stable sort,
\* equal values keep their order
RECURSIVE insert_descending(_, _)
insert_descending(sorted, item) ==
    IF sorted = <<>> THEN <<item>>
    ELSE IF Head(sorted).value >= item.value
    THEN <<Head(sorted)>> \o insert_descending(Tail(sorted), item)
    ELSE <<item>> \o sorted

RECURSIVE sorted_descending(_)
sorted_descending(values) ==
    IF values = <<>> THEN <<>>
    ELSE insert_descending(sorted_descending(SubSeq(values, 1, Len(values) - 1)),
                           values[Len(values)])

\* CrossSectionalRanker.rank
rank(data_dict, idx, symbol) ==
    IF data_dict = <<>> \/ symbol = NoSymbol THEN 0
    ELSE LET sorted_values == sorted_descending(rank_values(data_dict, idx))
         IN  IF \E k \in 1..Len(sorted_values) : sorted_values[k].symbol = symbol
             THEN CHOOSE k \in 1..Len(sorted_values) : sorted_values[k].symbol = symbol
             ELSE 0

\* CrossSectionalRanker.update_index
UpdateIndex ==
    /\ \E new_index \in 0..RankRows : rk_index' = new_index
    /\ UNCHANGED <<rankOthers, rk_data, rk_symbol, rk_result>>

\* CrossSectionalRanker.update_symbol
UpdateSymbol ==
    /\ \E new_symbol \in RankSymbols \cup {OtherSymbol} : rk_symbol' = new_symbol
    /\ UNCHANGED <<rankOthers, rk_data, rk_index, rk_result>>

NoRank == [asked |-> FALSE, idx |-> 0, symbol |-> NoSymbol, rank |-> 0]

\* a call of CrossSectionalRanker.rank(field)
Rank ==
    /\ rk_result' = [asked |-> TRUE, idx |-> rk_index, symbol |-> rk_symbol,
                     rank |-> rank(rk_data, rk_index, rk_symbol)]
    /\ UNCHANGED <<rankOthers, rk_data, rk_index, rk_symbol>>

\* CrossSectionalRanker.__init__
RankInit ==
    /\ rk_data \in Snapshots
    /\ rk_index \in 0..RankRows
    /\ rk_symbol \in RankSymbols \cup {OtherSymbol, NoSymbol}
    /\ rk_result = NoRank

RankFixed ==
    /\ rk_data = <<>>
    /\ rk_index = 0
    /\ rk_symbol = NoSymbol
    /\ rk_result = NoRank

RankNext == UpdateIndex \/ UpdateSymbol \/ Rank

\* ------------------------------------------------------------------ rebalance

\* Calendar dates a sequence of calculate_signals calls can cover, counted
\* from 2024-01-01 (day 0, a Monday).
Horizon == 61
\* Times of day a timestamp can carry (slot 0 is the earliest).
Slots == 2

\* the days of January, February and March 2024
MonthLengths == <<31, 29, 31>>

\* timestamp.weekday() + 1: Monday is 1
weekday_of(day) == (day % 7) + 1

\* timestamp.day
RECURSIVE day_of_month(_, _)
day_of_month(day, month) ==
    IF day < MonthLengths[month] THEN day + 1
    ELSE day_of_month(day - MonthLengths[month], month + 1)

\* (timestamp - last_rebalance_date).days: whole days of the time elapsed
days_between(timestamp, last) ==
    ((timestamp.day - last.day) * Slots + timestamp.slot - last.slot) \div Slots

Never == [set |-> FALSE, day |-> 0, slot |-> 0]
At(day, slot) == [set |-> TRUE, day |-> day, slot |-> slot]

\* CrossSectionalRankingService.should_rebalance
should_rebalance(config, timestamp, last) ==
    CASE config.frequency = "daily" ->
            ~last.set \/ timestamp.day # last.day
      [] config.frequency = "weekly" ->
            /\ weekday_of(timestamp.day) = config.rebalance_day
            /\ ~last.set \/ days_between(timestamp, last) >= 7
      [] config.frequency = "monthly" ->
            /\ day_of_month(timestamp.day, 1) = config.rebalance_day
            /\ ~last.set \/ days_between(timestamp, last) >= 28

\* min_price, min_volume: None or a floor
NoFloor == [set |-> FALSE, v |-> 0]
Floor(v) == [set |-> TRUE, v |-> v]

\* the factor expressions of the configurations
FactorExpressions == <<
    <<"close">>,
    <<"SMA", "(", "close", ",", "2", ")">> >>

\* RankingConfig with the defaults of the dataclass but for top_n, which the
\* callers set
Config(frequency, rebalance_day) ==
    [frequency |-> frequency, rebalance_day |-> rebalance_day,
     factor_expression |-> 1, ranking_method |-> "descending", top_n |-> 1,
     min_price |-> NoFloor, min_volume |-> NoFloor, max_position_percent |-> Rat(1, 10)]

\* RankingConfig: rebalance_frequency with rebalance_day, 1..7 for weekly
\* and 1..31 for monthly (daily does not read it; its default is 1)
RebalanceConfigs ==
    {Config("daily", 1)}
    \cup {Config("weekly", d) : d \in 1..7}
    \cup {Config("monthly", d) : d \in 1..31}

\* daily configurations that differ in factor, direction, top_n and floors
BasketConfigs ==
    {[Config("daily", 1) EXCEPT !.factor_expression = f, !.ranking_method = m,
                                !.top_n = n, !.max_position_percent = Rat(2, 5)] :
        f \in 1..2, m \in {"descending", "ascending"}, n \in 1..2}
    \cup {[Config("daily", 1) EXCEPT !.top_n = 2, !.min_price = Floor(4)],
          [Config("daily", 1) EXCEPT !.top_n = 2, !.min_volume = Floor(2)]}

\* data_dict: per symbol, in insertion order, the days its rows cover (the
\* timestamp of a row is slot 0 of its day) and its price columns
Market(name) ==
    CASE name = "calendar" ->
            << [symbol |-> "A", days |-> <<0>>,
                data |-> [close |-> <<1>>, volume |-> <<1>>]] >>
      [] name = "basket" ->
            << [symbol |-> "A", days |-> <<0, 1, 2>>,
                data |-> [close |-> <<3, 4, 5>>, volume |-> <<5, 5, 5>>]],
               [symbol |-> "B", days |-> <<0, 1, 2>>,
                data |-> [close |-> <<6, 7, 9>>, volume |-> <<1, 5, 5>>]],
               [symbol |-> "C", days |-> <<1, 2>>,
                data |-> [close |-> <<8, 8>>, volume |-> <<5, 0>>]] >>

Symbols(name) == {Market(name)[i].symbol : i \in DOMAIN Market(name)}

TableOf(name, symbol) == CHOOSE t \in {Market(name)[i] : i \in DOMAIN Market(name)} :
                             t.symbol = symbol

\* the days a caller asks about: the calendar of the gate, or the days of
\* the basket's rows
MarketDays(name) == IF name = "calendar" THEN 0..(Horizon - 1) ELSE 0..2

\* what the portfolio can hold when calculate_signals is called
HeldSets(name, with_portfolio) ==
    IF name = "calendar" \/ ~with_portfolio THEN {{}}
    ELSE {{}, {"A"}, {"B"}, {"A", "C"}}

\* current_prices as callers pass it: a price for every symbol, one symbol
\* without a price, one with the price 0
PriceLists(name) ==
    IF name = "calendar" THEN {("A" :> 1)}
    ELSE {("A" :> 7 @@ "B" :> 7 @@ "C" :> 7),
          ("B" :> 7 @@ "C" :> 7),
          ("A" :> 7 @@ "B" :> 0 @@ "C" :> 7)}

\* the row of a table at a timestamp (timestamp in data.index, or the
\* combined_time column equal to it): its place counted from 0, or none
RowAt(table, timestamp) ==
    LET places == {i \in DOMAIN table.days :
                      timestamp.slot = 0 /\ table.days[i] = timestamp.day}
    IN  IF places = {} THEN [found |-> FALSE, idx |-> 0]
        ELSE [found |-> TRUE, idx |-> (CHOOSE i \in places : TRUE) - 1]

NoParser == [made |-> FALSE, tc |-> <<>>, trace |-> {}]

\* CrossSectionalRankingService.calculate_cross_sectional_factor: the
\* symbols in the order of data_dict, each on its own parser and all on the
\* one IndicatorService; acc holds the parsers, the service's cache and the
\* factor values (nan for a symbol without a row and for an evaluation that
\* raised)
RECURSIVE calculate_cross_sectional_factor(_, _, _, _, _)
calculate_cross_sectional_factor(config, name, timestamp, i, acc) ==
    IF i > Len(Market(name)) THEN acc
    ELSE LET table == Market(name)[i]
             row == RowAt(table, timestamp)
         IN  IF ~row.found
             THEN calculate_cross_sectional_factor(config, name, timestamp, i + 1,
                      [acc EXCEPT !.factor_values =
                                      @ @@ (table.symbol :> nan)])
             ELSE Let(evaluate_at(FactorExpressions[config.factor_expression],
                                  table.data, row.idx, "factor",
                                  State(acc.parsers[table.symbol].tc, acc.ic,
                                        acc.parsers[table.symbol].trace)),
                      LAMBDA result :
                          calculate_cross_sectional_factor(config, name, timestamp, i + 1,
                              [parsers |-> [acc.parsers EXCEPT ![table.symbol] =
                                               [made |-> TRUE, tc |-> result.st.tc,
                                                trace |-> result.st.trace]],
                               ic |-> result.st.ic,
                               factor_values |->
                                   acc.factor_values
                                   @@ (table.symbol :>
                                          IF result.error # "" THEN nan ELSE result.v)]))

\* CrossSectionalRankingService.apply_filters: the value of a symbol below
\* a floor becomes nan
apply_filters(config, name, timestamp, factor_values) ==
    [symbol \in DOMAIN factor_values |->
        LET table == TableOf(name, symbol)
            row == RowAt(table, timestamp)
        IN  IF isna(factor_values[symbol]) \/ ~row.found THEN nan
            ELSE IF /\ config.min_price.set
                    /\ table.data.close[row.idx + 1] < config.min_price.v THEN nan
            ELSE IF /\ config.min_volume.set
                    /\ table.data.volume[row.idx + 1] < config.min_volume.v THEN nan
            ELSE factor_values[symbol]]

\* rank(ascending=ascending, method='min') of the values that are numbers
rank_of(config, values, symbol) ==
    1 + Cardinality({other \in DOMAIN values :
                        /\ ~isna(values[other])
                        /\ IF config.ranking_method = "ascending"
                           THEN RLess(values[other], values[symbol])
                           ELSE RLess(values[symbol], values[other])})

\* CrossSectionalRankingService.rank_symbols: the orders sort_values('rank')
\* can leave the ranked symbols in (its sort is not stable, so symbols of
\* one rank come in any order)
rank_symbols(config, values) ==
    LET ranked == {symbol \in DOMAIN values : ~isna(values[symbol])}
        n == Cardinality(ranked)
    IN  {order \in [1..n -> ranked] :
            /\ \A i, j \in 1..n : i # j => order[i] # order[j]
            /\ \A i, j \in 1..n :
                  i < j => rank_of(config, values, order[i])
                              <= rank_of(config, values, order[j])}

\* CrossSectionalRankingService.get_selected_symbols: ranking_df.head(top_n)
get_selected_symbols(config, order) ==
    SubSeq(order, 1, IF Len(order) < config.top_n THEN Len(order) ELSE config.top_n)

\* CrossSectionalRankingService.get_position_weights
get_position_weights(config, selected) ==
    IF selected = <<>> THEN <<>>
    ELSE LET equal == Rat(1, Len(selected))
             weight == IF RLess(equal, config.max_position_percent) THEN equal
                       ELSE config.max_position_percent
         IN  [i \in DOMAIN selected |-> weight]

\* RankingBasedStrategy._update_current_positions
update_current_positions(with_portfolio, positions, held) ==
    IF ~with_portfolio THEN positions ELSE held

\* A price test that takes every symbol, priced or not.
any_price(prices, symbol) == TRUE

\* price = current_prices.get(symbol); if price and price > 0
has_price(prices, symbol) == symbol \in DOMAIN prices /\ prices[symbol] > 0

\* the two loops of calculate_signals over the held and the target
\* symbols, each taken here in the order of data_dict: the signals appended
signals_of(name, selected, weights, current, prices) ==
    LET symbols == [i \in DOMAIN Market(name) |-> Market(name)[i].symbol]
        targets == {selected[i] : i \in DOMAIN selected}
        weight_of(symbol) == weights[CHOOSE i \in DOMAIN selected : selected[i] = symbol]
        sold == SelectSeq(symbols, LAMBDA symbol :
                    /\ symbol \in current
                    /\ symbol \notin targets
                    /\ has_price(prices, symbol))
        bought == SelectSeq(symbols, LAMBDA symbol :
                      /\ symbol \in targets
                      /\ symbol \notin current
                      /\ has_price(prices, symbol))
    IN  [i \in DOMAIN sold |->
            [symbol |-> sold[i], signal_type |-> "CLOSE", weight |-> Num(0)]]
        \o [i \in DOMAIN bought |->
               [symbol |-> bought[i], signal_type |-> "REBALANCE",
                weight |-> weight_of(bought[i])]]

NoCall == [made |-> FALSE, timestamp |-> Never, fired |-> FALSE, last |-> Never,
           held |-> {}, prices |-> <<>>, factor_values |-> <<>>]

\* RankingBasedStrategy.calculate_signals at a timestamp not earlier than
\* the one of the call before: the gate and, on a trigger, the factor of
\* every symbol, the filters, the ranking, the selection, the weights, the
\* held symbols, the signals and the date kept in last_rebalance_date
CalculateSignals ==
    /\ \E day \in MarketDays(rb_market), slot \in 0..(Slots - 1),
          held \in HeldSets(rb_market, rb_portfolio), prices \in PriceLists(rb_market) :
          LET timestamp == At(day, slot)
              fired == should_rebalance(rb_config, timestamp, last_rebalance_date)
          IN  /\ rb_call.made =>
                    \/ day > rb_call.timestamp.day
                    \/ day = rb_call.timestamp.day /\ slot >= rb_call.timestamp.slot
              /\ last_rebalance_date' = IF fired THEN timestamp ELSE last_rebalance_date
              /\ IF ~fired
                 THEN /\ rb_signals' = <<>>
                      /\ rb_call' = [made |-> TRUE, timestamp |-> timestamp,
                                     fired |-> FALSE, last |-> last_rebalance_date,
                                     held |-> held, prices |-> prices,
                                     factor_values |-> <<>>]
                      /\ UNCHANGED <<rb_parsers, rb_service_cache, target_positions,
                                     current_positions>>
                 ELSE \E computed \in
                          {calculate_cross_sectional_factor(rb_config, rb_market,
                               timestamp, 1,
                               [parsers |-> rb_parsers, ic |-> rb_service_cache,
                                factor_values |-> <<>>])} :
                      \E order \in
                          rank_symbols(rb_config,
                              apply_filters(rb_config, rb_market, timestamp,
                                            computed.factor_values)) :
                          LET selected == get_selected_symbols(rb_config, order)
                              current == update_current_positions(rb_portfolio,
                                             current_positions, held)
                          IN  /\ rb_parsers' = computed.parsers
                              /\ rb_service_cache' = computed.ic
                              /\ target_positions' =
                                     {selected[i] : i \in DOMAIN selected}
                              /\ current_positions' = current
                              /\ rb_signals' =
                                     signals_of(rb_market, selected,
                                         get_position_weights(rb_config, selected),
                                         current, prices)
                              /\ rb_call' = [made |-> TRUE, timestamp |-> timestamp,
                                             fired |-> TRUE,
                                             last |-> last_rebalance_date,
                                             held |-> held, prices |-> prices,
                                             factor_values |-> computed.factor_values]
    /\ UNCHANGED <<rebalanceOthers, rb_config, rb_market, rb_portfolio>>

\* RankingBasedStrategy.__init__ over a market
StrategyBuilt(name) ==
    /\ rb_market = name
    /\ rb_parsers = [symbol \in Symbols(name) |-> NoParser]
    /\ rb_service_cache = {}
    /\ target_positions = {}
    /\ current_positions = {}
    /\ rb_signals = <<>>
    /\ last_rebalance_date = Never
    /\ rb_call = NoCall

\* a strategy without a portfolio manager, for every cadence
RebalanceInit ==
    /\ rb_config \in RebalanceConfigs
    /\ rb_portfolio = FALSE
    /\ StrategyBuilt("calendar")

\* a daily strategy over the basket, with and without a portfolio manager
BasketInit ==
    /\ rb_config \in BasketConfigs
    /\ rb_portfolio \in BOOLEAN
    /\ StrategyBuilt("basket")

RebalanceFixed ==
    /\ rb_config = Config("daily", 1)
    /\ rb_portfolio = FALSE
    /\ StrategyBuilt("calendar")

RebalanceNext == CalculateSignals

\* ------------------------------------------------------------------ price table

\* Two runs built over one table the caller loaded.
Runs == {"A", "B"}
TableObjects == {"caller"} \cup Runs
Dates == 1..TableLen

BaseColumns == {"close", "code", "combined_time"}
RuleExprs == {"close > 1", "close > 2"}

\* a cell of the signal column: <<>> is NaN, <<m>> the mark m
NaN == <<>>

\* the table as the caller loaded it
OriginalTable == [columns |-> BaseColumns, signal |-> [d \in Dates |-> NaN]]

NoReport == [done |-> FALSE, has_signals |-> FALSE, rows |-> {}, columns |-> {}]

\* An engine that keeps a copy of the table it is given.
engine_data_copy(r) == r

\* BacktestEngine.__init__: self.data = data, and RuleParser.__init__:
\* self.data = data_provider, ResultStorageManager(data_provider): the object
\* the run reads and writes is the one it was given
engine_data(r) == "caller"

\* ResultStorageManager._clean_rule_name: the trace column of a rule
clean_rule_name(rule) ==
    CASE rule = "close > 1" -> "close_>_1"
      [] rule = "close > 2" -> "close_>_2"

\* ResultStorageManager.save_rule_result: the column exists afterwards
save_rule_result(t, rule) ==
    [t EXCEPT !.columns = @ \cup {clean_rule_name(rule)}]

\* _handle_signal_event: self.data.loc[idx, 'signal'] = mark
SignalMark(kind) == IF kind \in {"OPEN", "BUY"} THEN 1 ELSE -1

mark_signal(t, idx, kind) ==
    [t EXCEPT !.columns = @ \cup {"signal"}, !.signal[idx] = <<SignalMark(kind)>>]

\* get_results: price_data = self.data.copy(); the rows with signal != 0
signals_data(t) ==
    IF "signal" \in t.columns
    THEN [done |-> TRUE, has_signals |-> TRUE,
          rows |-> {<<d, t.signal[d]>> : d \in {x \in Dates : t.signal[x] # <<0>>}},
          columns |-> t.columns]
    ELSE [done |-> TRUE, has_signals |-> FALSE, rows |-> {}, columns |-> t.columns]

\* BacktestEngine(config, data) and create_rule_based_strategy: the strategy's
\* constructor evaluates its rule on every row (_initialize_rule_columns) and
\* then copies the parser's table into debug_data
BuildRun(r) ==
    /\ run_pc[r] = "new"
    /\ \E rule \in RuleExprs :
          LET ref == engine_data(r)
              written == [tables EXCEPT ![ref] = save_rule_result(@, rule)]
          IN  /\ data_ref' = [data_ref EXCEPT ![r] = ref]
              /\ own_rule' = [own_rule EXCEPT ![r] = rule]
              /\ tables' = [written EXCEPT ![r] = written[ref]]
    /\ run_pc' = [run_pc EXCEPT ![r] = "built"]
    /\ UNCHANGED <<tableOthers, run_pos, own_marks, reported>>

\* one bar of the run: the strategy gives no signal or one, which
\* _handle_signal_event marks in engine.data; after the last bar run copies
\* the parser's table into debug_data
RunBar(r) ==
    /\ run_pc[r] = "built"
    /\ run_pos[r] < TableLen
    /\ LET idx == run_pos[r] + 1
           ref == data_ref[r]
       IN  \E kind \in {"none", "OPEN", "SELL"} :
              LET marked == IF kind = "none" THEN tables
                            ELSE [tables EXCEPT ![ref] = mark_signal(@, idx, kind)]
              IN  /\ tables' = IF idx = TableLen
                               THEN [marked EXCEPT ![r] = marked[ref]]
                               ELSE marked
                  /\ own_marks' = IF kind = "none" THEN own_marks
                                  ELSE [own_marks EXCEPT ![r][idx] = <<SignalMark(kind)>>]
                  /\ run_pos' = [run_pos EXCEPT ![r] = idx]
                  /\ run_pc' = [run_pc EXCEPT ![r] = IF idx = TableLen THEN "done" ELSE "built"]
    /\ UNCHANGED <<tableOthers, data_ref, own_rule, reported>>

\* BacktestEngine.get_results
GetResults(r) ==
    /\ run_pc[r] = "done"
    /\ reported' = [reported EXCEPT ![r] = signals_data(tables[data_ref[r]])]
    /\ run_pc' = [run_pc EXCEPT ![r] = "reported"]
    /\ UNCHANGED <<tableOthers, tables, data_ref, run_pos, own_rule, own_marks>>

TableInit ==
    /\ tables = [o \in TableObjects |-> OriginalTable]
    /\ data_ref = [r \in Runs |-> "none"]
    /\ run_pc = [r \in Runs |-> "new"]
    /\ run_pos = [r \in Runs |-> 0]
    /\ own_rule = [r \in Runs |-> "none"]
    /\ own_marks = [r \in Runs |-> [d \in Dates |-> NaN]]
    /\ reported = [r \in Runs |-> NoReport]

\* ------------------------------------------------------------------ registration

\* Strategies an engine may be handed at once.
MaxStrategies == 3

\* strategy.strategy_id: a string, or something that is not one
Id(text) == [str |-> TRUE, v |-> text]
NotAString == [str |-> FALSE, v |-> "7"]

\* what register_strategy reads of a strategy object
StrategyObject(handle_event, strategy_id, id, on_schedule) ==
    [has_handle_event |-> handle_event, has_strategy_id |-> strategy_id,
     strategy_id |-> id, has_on_schedule |-> on_schedule]

\* the strategies handed to register_strategy: complete ones, ones that
\* meet the documented contract (handle_event and strategy_id) without an
\* on_schedule method, and ones the checks reject
StrategyObjects ==
    {StrategyObject(TRUE, TRUE, Id(text), on_schedule) :
        text \in {"a", "b", "c"}, on_schedule \in BOOLEAN}
    \cup {StrategyObject(FALSE, TRUE, Id("a"), TRUE),
          StrategyObject(TRUE, FALSE, Id("a"), TRUE),
          StrategyObject(TRUE, TRUE, Id(""), TRUE),
          StrategyObject(TRUE, TRUE, NotAString, TRUE)}

\* existing_ids = [s.strategy_id for s in self.strategies]
existing_ids(strategies) == {strategies[i].strategy_id : i \in DOMAIN strategies}

\* BacktestEngine.register_strategy: the strategy list and the handler
\* registry after the call, and the exception that left it ("" for none)
register_strategy(strategies, registry, strategy) ==
    IF ~strategy.has_handle_event
    THEN [strategies |-> strategies, handlers |-> registry, raised |-> "ValueError"]
    ELSE IF ~strategy.has_strategy_id
    THEN [strategies |-> strategies, handlers |-> registry, raised |-> "ValueError"]
    ELSE IF strategy.strategy_id.v = "" \/ ~strategy.strategy_id.str
    THEN [strategies |-> strategies, handlers |-> registry, raised |-> "ValueError"]
    ELSE IF strategy.strategy_id \in existing_ids(strategies)
    THEN [strategies |-> strategies, handlers |-> registry, raised |-> "ValueError"]
    ELSE IF ~strategy.has_on_schedule
    THEN [strategies |-> Append(strategies, strategy), handlers |-> registry,
          raised |-> "AttributeError"]
    ELSE [strategies |-> Append(strategies, strategy),
          handlers |-> [t \in DOMAIN registry \cup {"StrategySchedule"} |->
                           IF t = "StrategySchedule" THEN strategy.strategy_id.v
                           ELSE registry[t]],
          raised |-> ""]

NoRegistration ==
    [made |-> FALSE, strategy |-> StrategyObject(TRUE, TRUE, Id("a"), TRUE),
     raised |-> "", strategies |-> <<>>, handlers |-> handlers]

\* one register_strategy call on the engine
RegisterStrategy ==
    /\ Len(reg_strategies) < MaxStrategies
    /\ \E strategy \in StrategyObjects :
          LET result == register_strategy(reg_strategies, reg_handlers, strategy)
          IN  /\ reg_strategies' = result.strategies
              /\ reg_handlers' = result.handlers
              /\ reg_call' = [made |-> TRUE, strategy |-> strategy,
                              raised |-> result.raised,
                              strategies |-> reg_strategies,
                              handlers |-> reg_handlers]
    /\ UNCHANGED registerOthers

\* BacktestEngine.__init__: no strategy, the three handlers of the engine
RegisterInit ==
    /\ reg_strategies = <<>>
    /\ reg_handlers = handlers
    /\ reg_call = NoRegistration

RegisterFixed == RegisterInit

RegisterNext == RegisterStrategy

\* ------------------------------------------------------------------ rebalance period

\* Calendar dates a sequence of should_rebalance calls can cover, counted
\* from 2024-01-01 (day 0, a Monday).
PeriodDays == 9
\* Largest trading_days interval and largest min_interval_days configured.
MaxInterval == 3
MaxMinInterval == 2

\* the config dictionary RebalancePeriodService.__init__ reads
PeriodConfig(mode, interval, frequency, day, min_interval_days, allow_first_rebalance) ==
    [mode |-> mode, interval |-> interval, frequency |-> frequency, day |-> day,
     min_interval_days |-> min_interval_days,
     allow_first_rebalance |-> allow_first_rebalance]

\* configs of the three modes; the keys a mode does not read keep their
\* defaults (interval 5, frequency weekly, day 1)
PeriodConfigs ==
    {PeriodConfig("trading_days", k, "weekly", 1, m, first) :
        k \in 1..MaxInterval, m \in 0..MaxMinInterval, first \in BOOLEAN}
    \cup {PeriodConfig("calendar_rule", 5, frequency, day, m, first) :
            frequency \in {"weekly", "monthly"}, day \in {1, 3},
            m \in 0..MaxMinInterval, first \in BOOLEAN}
    \cup {PeriodConfig("disabled", 5, "weekly", 1, m, first) :
            m \in 0..MaxMinInterval, first \in BOOLEAN}

NoDate == [set |-> FALSE, day |-> 0]
Date(day) == [set |-> TRUE, day |-> day]

\* RebalancePeriodService._should_rebalance_by_trading_days
should_rebalance_by_trading_days(config, count, last, day, is_new_day) ==
    LET result == count % config.interval = 0
    IN  [count |-> count,
         last |-> IF result /\ is_new_day THEN Date(day) ELSE last,
         result |-> result]

\* RebalancePeriodService._should_rebalance_by_calendar_rule
should_rebalance_by_calendar_rule(config, count, last, day) ==
    LET result ==
            CASE config.frequency = "weekly" ->
                    weekday_of(day) - 1 = (config.day - 1) % 7
              [] config.frequency = "monthly" ->
                    day_of_month(day, 1) = config.day
              [] OTHER -> FALSE
    IN  [count |-> count, last |-> IF result THEN Date(day) ELSE last,
         result |-> result]

\* RebalancePeriodService.should_rebalance: trading_days_count and
\* last_rebalance_date after the call, and what it returned
period_should_rebalance(config, count, last, day, is_new_day) ==
    LET counted == IF is_new_day THEN count + 1 ELSE count
    IN  IF ~last.set
        THEN IF config.allow_first_rebalance
             THEN [count |-> counted, last |-> Date(day), result |-> TRUE]
             ELSE [count |-> counted, last |-> last, result |-> FALSE]
        ELSE IF config.min_interval_days > 0
                /\ day - last.day < config.min_interval_days
        THEN [count |-> counted, last |-> last, result |-> FALSE]
        ELSE CASE config.mode = "trading_days" ->
                     should_rebalance_by_trading_days(config, counted, last, day,
                                                      is_new_day)
               [] config.mode = "calendar_rule" ->
                     should_rebalance_by_calendar_rule(config, counted, last, day)
               [] OTHER -> [count |-> counted, last |-> last, result |-> TRUE]

NoPeriodCall == [made |-> FALSE, day |-> 0, is_new_day |-> FALSE, result |-> FALSE,
                 daily |-> TRUE]

\* one should_rebalance call of the backtest loop: a bar of the day of the
\* call before (is_new_day False) or the first bar of a later trading day
ShouldRebalance ==
    /\ \E day \in 0..(PeriodDays - 1) :
          /\ rp_call.made => day \in rp_call.day..(rp_call.day + 3)
          /\ LET is_new_day == ~rp_call.made \/ day > rp_call.day
                 after == period_should_rebalance(rp_config, trading_days_count,
                              rp_last_rebalance_date, day, is_new_day)
             IN  /\ trading_days_count' = after.count
                 /\ rp_last_rebalance_date' = after.last
                 /\ rp_call' = [made |-> TRUE, day |-> day, is_new_day |-> is_new_day,
                                result |-> after.result,
                                daily |-> rp_call.daily /\ is_new_day]
                 /\ rp_trues' = IF after.result THEN <<rp_trues[2], Date(day)>>
                                ELSE rp_trues
                 /\ rp_misses' = IF after.result THEN 0
                                 ELSE IF is_new_day THEN rp_misses + 1
                                 ELSE rp_misses
    /\ UNCHANGED <<periodOthers, rp_config>>

\* RebalancePeriodService.__init__ with a config
PeriodBuilt ==
    /\ trading_days_count = 0
    /\ rp_last_rebalance_date = NoDate
    /\ rp_call = NoPeriodCall
    /\ rp_trues = <<NoDate, NoDate>>
    /\ rp_misses = 0

PeriodInit ==
    /\ rp_config \in PeriodConfigs
    /\ PeriodBuilt

PeriodFixed ==
    /\ rp_config = PeriodConfig("disabled", 5, "weekly", 1, 0, TRUE)
    /\ PeriodBuilt

PeriodNext == ShouldRebalance

\* ------------------------------------------------------------------ websocket manager

WebSockets == {"w1", "w2", "w3"}
BacktestIds == {"bt1", "bt2"}

\* Elements one iteration over a set that is being changed can yield at
\* most (the slots of its hash table).
SetSlots == 3

\* WebSocketManager.connect after websocket.accept() has returned
connect(connections, websocket, backtest_id) ==
    IF backtest_id \notin DOMAIN connections
    THEN connections @@ (backtest_id :> {websocket})
    ELSE [connections EXCEPT ![backtest_id] = @ \cup {websocket}]

\* WebSocketManager.disconnect
disconnect(connections, websocket, backtest_id) ==
    IF backtest_id \notin DOMAIN connections THEN connections
    ELSE IF connections[backtest_id] \ {websocket} = {}
    THEN [id \in DOMAIN connections \ {backtest_id} |-> connections[id]]
    ELSE [connections EXCEPT ![backtest_id] = @ \ {websocket}]

\* for conn in disconnected: self.disconnect(conn, backtest_id)
RECURSIVE disconnect_all(_, _, _)
disconnect_all(connections, disconnected, backtest_id) ==
    IF disconnected = {} THEN connections
    ELSE LET conn == CHOOSE c \in disconnected : TRUE
         IN  disconnect_all(disconnect(connections, conn, backtest_id),
                            disconnected \ {conn}, backtest_id)

Idle ==
    [pc |-> "idle", backtest_id |-> "bt1", used |-> 0, visited |-> {},
     current |-> "w1", disconnected |-> {}, detached |-> FALSE, changed |-> FALSE,
     yields |-> 0, raised |-> "", failed |-> {}]

\* the set object the for loop of the coroutine iterates: the one that was
\* under the key when the loop began, emptied when its key was deleted
iterated(connections, task) ==
    IF task.detached \/ task.backtest_id \notin DOMAIN connections THEN {}
    ELSE connections[task.backtest_id]

\* what next() of the loop's set iterator can do: raise RuntimeError when
\* the set's size differs from the size at the start, stop, or yield an
\* element; over a set changed back to its size the order is that of the
\* rebuilt table, so elements may be skipped or come again
iter_next(connections, task) ==
    LET now == iterated(connections, task)
    IN  IF Cardinality(now) # task.used THEN {[kind |-> "raise", item |-> "w1"]}
        ELSE IF ~task.changed
        THEN IF now \ task.visited = {} THEN {[kind |-> "stop", item |-> "w1"]}
             ELSE {[kind |-> "yield", item |-> w] : w \in now \ task.visited}
        ELSE {[kind |-> "stop", item |-> "w1"]}
             \cup {[kind |-> "yield", item |-> w] :
                      w \in IF task.yields < SetSlots THEN now ELSE {}}

\* the coroutine from a next() of its loop to its next suspension or end
advance(connections, task, step) ==
    CASE step.kind = "raise" ->
            [connections |-> connections,
             task |-> [task EXCEPT !.pc = "done", !.raised = "RuntimeError"]]
      [] step.kind = "stop" ->
            [connections |-> disconnect_all(connections, task.disconnected,
                                            task.backtest_id),
             task |-> [task EXCEPT !.pc = "done"]]
      [] OTHER ->
            [connections |-> connections,
             task |-> [task EXCEPT !.pc = "sending", !.current = step.item,
                                   !.visited = @ \cup {step.item},
                                   !.yields = @ + 1]]

\* broadcast_progress is called: it returns at once for a backtest_id
\* without subscribers, otherwise runs to its first await send_text
BroadcastProgress ==
    /\ broadcast.pc \in {"idle", "done"}
    /\ \E backtest_id \in BacktestIds :
          IF backtest_id \notin DOMAIN active_connections
          THEN /\ broadcast' = [Idle EXCEPT !.pc = "done", !.backtest_id = backtest_id]
               /\ UNCHANGED active_connections
          ELSE LET task == [Idle EXCEPT !.backtest_id = backtest_id,
                                        !.used = Cardinality(active_connections[backtest_id])]
               IN  \E step \in iter_next(active_connections, task) :
                       LET after == advance(active_connections, task, step)
                       IN  /\ broadcast' = after.task
                           /\ active_connections' = after.connections
    /\ UNCHANGED socketOthers

\* the awaited send_text returns or raises; the loop goes on to the next
\* connection and, when it is over, removes the connections that failed
SendText ==
    /\ broadcast.pc = "sending"
    /\ \E sent \in BOOLEAN :
          LET task == IF sent THEN broadcast
                      ELSE [broadcast EXCEPT
                               !.disconnected = @ \cup {broadcast.current},
                               !.failed = @ \cup {broadcast.current}]
          IN  \E step \in iter_next(active_connections, task) :
                  LET after == advance(active_connections, task, step)
                  IN  /\ broadcast' = after.task
                      /\ active_connections' = after.connections
    /\ UNCHANGED socketOthers

\* the coroutine's view of a change made to the connections of a
\* backtest_id by another task
disturb(task, before, after, backtest_id) ==
    IF task.pc # "sending" \/ task.backtest_id # backtest_id \/ task.detached
       \/ before = after
    THEN task
    ELSE [task EXCEPT !.changed = TRUE,
                      !.detached = backtest_id \notin DOMAIN after]

\* a websocket endpoint connects a client, also while a broadcast is
\* suspended in a send
Connect ==
    /\ \E websocket \in WebSockets, backtest_id \in BacktestIds :
          LET after == connect(active_connections, websocket, backtest_id)
          IN  /\ active_connections' = after
              /\ broadcast' = disturb(broadcast, active_connections, after, backtest_id)
    /\ UNCHANGED socketOthers

\* a websocket endpoint disconnects a client, also while a broadcast is
\* suspended in a send
Disconnect ==
    /\ \E websocket \in WebSockets, backtest_id \in BacktestIds :
          LET after == disconnect(active_connections, websocket, backtest_id)
          IN  /\ active_connections' = after
              /\ broadcast' = disturb(broadcast, active_connections, after, backtest_id)
    /\ UNCHANGED socketOthers

\* WebSocketManager.__init__
SocketInit ==
    /\ active_connections = <<>>
    /\ broadcast = Idle

SocketFixed == SocketInit

SocketNext == BroadcastProgress \/ SendText \/ Connect \/ Disconnect

\* ------------------------------------------------------------------ backtest task

\* Progress updates one run pushes (the callback is throttled to steps of
\* half a percent; progress is kept in units of 1/MaxProgress).
MaxProgress == 2

\* what an awaited broadcast_progress can do to its caller: return, or let
\* the RuntimeError of its set iteration out (a subscriber connected or
\* disconnected during a send)
BroadcastOutcomes == {"returned", "RuntimeError"}

\* the backtests submitted
TaskIds == BacktestIds \cup {"bt3"}

\* BacktestStateService.create_backtest: the record stored under the key
create_backtest(store, backtest_id) ==
    [id \in DOMAIN store \cup {backtest_id} |->
        IF id = backtest_id THEN [status |-> "pending", progress |-> 0, error |-> ""]
        ELSE store[id]]

\* BacktestStateService.update_status: hset of the fields given (None
\* leaves a field alone; NONE stands for it)
update_status(store, backtest_id, status, progress, error) ==
    [id \in DOMAIN store \cup {backtest_id} |->
        IF id # backtest_id THEN store[id]
        ELSE LET old == IF id \in DOMAIN store THEN store[id]
                        ELSE [status |-> "", progress |-> 0, error |-> ""]
             IN  [status |-> status,
                  progress |-> IF progress = NONE THEN old.progress ELSE progress,
                  error |-> IF error = "" THEN old.error ELSE error]]

\* except Exception as e: update_status(backtest_id, "failed", error=str(e))
\* and on to the awaits of the except clause
fail(store, backtest_id, e) == update_status(store, backtest_id, "failed", NONE, e)

\* submit_backtest: the record is created and the task is queued
SubmitBacktest(backtest_id) ==
    /\ bt_task[backtest_id] = "none"
    /\ bt_store' = create_backtest(bt_store, backtest_id)
    /\ bt_task' = [bt_task EXCEPT ![backtest_id] = "queued"]
    /\ UNCHANGED statusOthers

\* _execute_backtest_async from its start to the broadcast of "running"
ExecuteStart(backtest_id) ==
    /\ bt_task[backtest_id] = "queued"
    /\ bt_store' = update_status(bt_store, backtest_id, "running", NONE, "")
    /\ bt_task' = [bt_task EXCEPT ![backtest_id] = "announcing"]
    /\ UNCHANGED statusOthers

\* the broadcast of "running" returns or raises; then the strategy config,
\* the data and the engine are set up, which succeeds or raises
ExecuteSetup(backtest_id) ==
    /\ bt_task[backtest_id] = "announcing"
    /\ \E outcome \in BroadcastOutcomes \cup {"ValueError"} :
          IF outcome = "returned"
          THEN /\ bt_task' = [bt_task EXCEPT ![backtest_id] = "running"]
               /\ UNCHANGED bt_store
          ELSE /\ bt_store' = fail(bt_store, backtest_id, outcome)
               /\ bt_task' = [bt_task EXCEPT ![backtest_id] = "failed"]
    /\ UNCHANGED statusOthers

\* progress_callback inside engine.run: the status is stored as running
\* with the progress; what its broadcast raises stays in the run loop
ProgressCallback(backtest_id) ==
    /\ bt_task[backtest_id] = "running"
    /\ bt_store[backtest_id].progress < MaxProgress
    /\ bt_store' = update_status(bt_store, backtest_id, "running",
                                 bt_store[backtest_id].progress + 1, "")
    /\ UNCHANGED <<bt_task, statusOthers>>

\* engine.run and get_results return and the status is stored as
\* completed, or one of them raises
ExecuteComplete(backtest_id) ==
    /\ bt_task[backtest_id] = "running"
    /\ \/ /\ bt_store' = update_status(bt_store, backtest_id, "completed",
                                       MaxProgress, "")
          /\ bt_task' = [bt_task EXCEPT ![backtest_id] = "completing"]
       \/ /\ bt_store' = fail(bt_store, backtest_id, "Exception")
          /\ bt_task' = [bt_task EXCEPT ![backtest_id] = "failed"]
    /\ UNCHANGED statusOthers

\* the database update and the clean-up swallow their errors; the
\* broadcast of "completed" returns, or raises into the except clause
ExecuteAnnounce(backtest_id) ==
    /\ bt_task[backtest_id] = "completing"
    /\ \E outcome \in BroadcastOutcomes :
          IF outcome = "returned"
          THEN /\ bt_task' = [bt_task EXCEPT ![backtest_id] = "completed"]
               /\ UNCHANGED bt_store
          ELSE /\ bt_store' = fail(bt_store, backtest_id, outcome)
               /\ bt_task' = [bt_task EXCEPT ![backtest_id] = "failed"]
    /\ UNCHANGED statusOthers

StatusInit ==
    /\ bt_store = <<>>
    /\ bt_task = [backtest_id \in TaskIds |-> "none"]

StatusFixed == StatusInit

StatusNext ==
    \E backtest_id \in DOMAIN bt_task :
        \/ SubmitBacktest(backtest_id)
        \/ ExecuteStart(backtest_id)
        \/ ExecuteSetup(backtest_id)
        \/ ProgressCallback(backtest_id)
        \/ ExecuteComplete(backtest_id)
        \/ ExecuteAnnounce(backtest_id)

\* the services, for the specifications that do not use them
ServiceFixed == RegisterFixed /\ PeriodFixed /\ SocketFixed /\ StatusFixed

\* the parts a specification does not run
LaterFixed == TableInit /\ EvalFixed /\ RankFixed /\ RebalanceFixed
LaterInit == LaterFixed /\ ServiceFixed

\* ------------------------------------------------------------------ specifications

EquityInit ==
    /\ equity_records = <<>>
    /\ peak_value = InitialCapital
    /\ max_drawdown = <<0, 1>>
    /\ current_drawdown = <<0, 1>>
    /\ metrics_max_drawdown = Absent

CacheInit ==
    /\ time_cache = <<>>
    /\ time_cache_hits = 0
    /\ time_cache_misses = 0
    /\ last_evicted = NONE
    /\ use_order = <<>>

StrategyReady ==
    /\ gs_phase = "ready"
    /\ gs_outcome = [r \in RuleNames |-> "false"]
    /\ gs_position = 0
    /\ gs_signals = <<>>
    /\ gs_considered = <<>>
    /\ parser_current_index = 0

\* one strategy, as the engine's tests build it
StrategyFixed ==
    /\ rule_exprs = [r \in RuleNames |-> TRUE]
    /\ hasPortfolio = TRUE
    /\ hasCode = TRUE
    /\ hasCombinedTime = TRUE
    /\ StrategyReady

\* one engine build, for the specifications that do not run the engine
EngineFixed ==
    /\ EngineInit
    /\ tdAcceptsPrice = FALSE
    /\ hasClose = TRUE
    /\ hasCallback = FALSE

\* The engine: BacktestEngine.run over its coordinator, handlers, portfolio
\* and equity service.
Init == EngineInit /\ EquityInit /\ CacheInit /\ StrategyFixed /\ LaterInit

Spec == Init /\ [][Next]_vars

\* EquityService and the report's metrics under direct calls.
EquitySpecInit == EngineFixed /\ EquityInit /\ CacheInit /\ StrategyFixed /\ LaterInit

EquityNext == EquityCall \/ CalculateAdvancedMetrics

EquitySpec == EquitySpecInit /\ [][EquityNext]_vars

\* RuleCacheManager under direct calls.
CacheSpecInit == EngineFixed /\ EquityInit /\ CacheInit /\ StrategyFixed /\ LaterInit

CacheNext == GetTimeCached \/ SetTimeCached \/ ClearTimeCache \/ ClearAll

CacheSpec == CacheSpecInit /\ [][CacheNext]_vars

\* RuleBasedStrategy.generate_signals, one call per bar, for every choice of
\* rule expressions and table columns.
StrategySpecInit ==
    /\ EngineFixed /\ EquityInit /\ CacheInit /\ LaterInit
    /\ rule_exprs \in [RuleNames -> BOOLEAN]
    /\ hasPortfolio \in BOOLEAN
    /\ hasCode \in BOOLEAN
    /\ hasCombinedTime \in BOOLEAN
    /\ StrategyReady

StrategyNext == GenerateSignals \/ StrategyNextBar

StrategySpec == StrategySpecInit /\ [][StrategyNext]_vars

\* the engine, equity service, cache and strategy at rest
CoreFixed == EngineFixed /\ EquityInit /\ CacheInit /\ StrategyFixed

\* Two runs over one caller-supplied table, interleaved at bar boundaries.
TableSpecInit == CoreFixed /\ ServiceFixed /\ TableInit /\ EvalFixed /\ RankFixed /\ RebalanceFixed

TableNext == \E r \in Runs : BuildRun(r) \/ RunBar(r) \/ GetResults(r)

TableSpec == TableSpecInit /\ [][TableNext]_vars

\* one parser over one table, evaluating rule texts
EvalSpecInit == CoreFixed /\ ServiceFixed /\ TableInit /\ EvalInit /\ RankFixed /\ RebalanceFixed
EvalSpec == EvalSpecInit /\ [][EvalNext]_vars

\* one parser whose caller validates and evaluates boolean, ill-formed and
\* refused texts
LogicSpecInit == CoreFixed /\ ServiceFixed /\ TableInit /\ LogicInit /\ RankFixed /\ RebalanceFixed
LogicSpec == LogicSpecInit /\ [][LogicNext]_vars

\* one parser evaluating deeply nested calls
DepthSpecInit == CoreFixed /\ ServiceFixed /\ TableInit /\ DepthInit /\ RankFixed /\ RebalanceFixed
DepthSpec == DepthSpecInit /\ [][EvalNext]_vars

\* one parser evaluating texts that read a portfolio that changes
PortfolioSpecInit ==
    CoreFixed /\ ServiceFixed /\ TableInit /\ PortfolioInit /\ RankFixed /\ RebalanceFixed
PortfolioSpec == PortfolioSpecInit /\ [][PortfolioNext]_vars

\* one ranker over one snapshot
RankSpecInit == CoreFixed /\ ServiceFixed /\ TableInit /\ EvalFixed /\ RankInit /\ RebalanceFixed
RankSpec == RankSpecInit /\ [][RankNext]_vars

\* one ranking strategy called at non-decreasing timestamps
RebalanceSpecInit == CoreFixed /\ ServiceFixed /\ TableInit /\ EvalFixed /\ RankFixed /\ RebalanceInit
RebalanceSpec == RebalanceSpecInit /\ [][RebalanceNext]_vars

\* one daily ranking strategy over a basket of three symbols
BasketSpecInit == CoreFixed /\ ServiceFixed /\ TableInit /\ EvalFixed /\ RankFixed /\ BasketInit
BasketSpec == BasketSpecInit /\ [][RebalanceNext]_vars

\* An engine that is handed strategies to register.
RegisterSpecInit ==
    CoreFixed /\ LaterFixed /\ RegisterInit /\ PeriodFixed /\ SocketFixed /\ StatusFixed
RegisterSpec == RegisterSpecInit /\ [][RegisterNext]_vars

\* A RebalancePeriodService asked bar after bar.
PeriodSpecInit ==
    CoreFixed /\ LaterFixed /\ RegisterFixed /\ PeriodInit /\ SocketFixed /\ StatusFixed
PeriodSpec == PeriodSpecInit /\ [][PeriodNext]_vars

\* A WebSocketManager with endpoints connecting and disconnecting clients
\* while progress is broadcast.
SocketSpecInit ==
    CoreFixed /\ LaterFixed /\ RegisterFixed /\ PeriodFixed /\ SocketInit /\ StatusFixed
SocketSpec == SocketSpecInit /\ [][SocketNext]_vars

\* Backtests submitted to the task manager and executed in the background.
StatusSpecInit ==
    CoreFixed /\ LaterFixed /\ RegisterFixed /\ PeriodFixed /\ SocketFixed /\ StatusInit
StatusSpec == StatusSpecInit /\ [][StatusNext]_vars


\* Fairness of the run: the coroutine is resumed after each await, and the
\* hooks, handlers and callback it calls return or raise.
RunStep ==
    \/ BarSetCurrent
    \/ BarUpdateEquity
    \/ BarTradingDayEvent
    \/ BarStrategyHook
    \/ BarBeginDrain
    \/ ProcessEvent
    \/ DrainReturn
    \/ BarProgress
    \/ RunFinish

LiveSpec == Init /\ [][Next]_vars /\ WF_vars(RunStep)


\* ------------------------------------------------------------------ claims

\* C1: process_event_queue dispatches events in the order they were pushed:
\* the queue always holds exactly the events pushed after the one dispatched
\* last, oldest first, so each dispatch takes the next pushed event, also
\* for events a handler pushes during the drain; and the drain has returned
\* only with the queue empty.
C1_FifoDrain ==
    /\ \A i \in 1..Len(queue) : queue[i].id = lastHandled + i
    /\ nextId = lastHandled + Len(queue) + 1
    /\ pc = "progress" => queue = <<>>

\* C1 witness: in the first bar's drain an order pushed by the signal handler
\* during that drain has been dispatched (it produced a trade) and the drain
\* has returned.
C1_Witness ==
    /\ pc = "progress"
    /\ pos = 1
    /\ trades # <<>>
    /\ lastHandled >= 3

\* C2: when run is done with a bar of the table (one that has a close price),
\* the bar has performed set-current, mark-equity, enqueue TradingDay,
\* strategy hooks and drain, each once and in this order.
C2_EveryBarRunsAllSteps ==
    (pc = "loop" /\ pos >= 1 /\ hasClose) => steps = FullBar

\* C3: whenever run moves on from a bar, the event queue is empty.
C3_QueueEmptyBetweenBars ==
    (pc = "loop" /\ pos >= 1) => queue = <<>>

\* An order the claim calls rejected: zero quantity, non-positive price, a buy
\* needing more cash than available, a sell of more than is held.
Rejectable(e) ==
    \/ e.quantity = 0
    \/ e.price <= 0
    \/ e.kind = "BUY" /\ e.quantity * e.price > cash
    \/ e.kind = "SELL" /\ e.quantity > position

SeenPosition == IF hasPortfolio /\ hasCode THEN gs_position ELSE 0

\* the rules of the claim's order that have an expression
ClaimOrder ==
    SelectSeq(IF SeenPosition = 0 THEN <<"open">> ELSE <<"close", "sell", "buy">>,
              LAMBDA r : rule_exprs[r])

\* places in ClaimOrder of the rules that evaluated true
TruePlaces == {i \in 1..Len(ClaimOrder) : gs_outcome[ClaimOrder[i]] = "true"}

FirstTrue == CHOOSE i \in TruePlaces : \A j \in TruePlaces : i <= j

\* C5: a call of generate_signals returns at most one signal; flat, it
\* evaluates only the open rule; holding, it evaluates close, then sell, then
\* buy, stopping at the first that is true, and the signal returned is that
\* rule's (none when no rule is true).
C5_FirstTrueRuleWins ==
    gs_phase = "returned" =>
        /\ Len(gs_signals) <= 1
        /\ SeenPosition = 0 => \A i \in 1..Len(gs_considered) : gs_considered[i] = "open"
        /\ TruePlaces = {} => (gs_signals = <<>> /\ gs_considered = ClaimOrder)
        /\ (TruePlaces # {} /\ hasCode /\ hasCombinedTime) =>
              /\ gs_signals = <<SignalOf(ClaimOrder[FirstTrue])>>
              /\ gs_considered = SubSeq(ClaimOrder, 1, FirstTrue)
        /\ gs_signals # <<>> => (TruePlaces # {} /\ gs_signals[1] = SignalOf(ClaimOrder[FirstTrue]))

\* C5 witness: holding, the close rule false, the sell and the buy rule both
\* true: the call returned the sell signal.
C5_Witness ==
    /\ gs_phase = "returned"
    /\ SeenPosition > 0
    /\ \A r \in RuleNames : rule_exprs[r]
    /\ gs_outcome["close"] = "false"
    /\ gs_outcome["sell"] = "true"
    /\ gs_outcome["buy"] = "true"
    /\ gs_signals = <<"SELL">>
    /\ gs_considered = <<"close", "sell">>

\* C6: run takes every in-range bar and then returns; no exception leaves it,
\* and once started it reaches its end whatever was caught on the way.
C6_RunVisitsEveryBar ==
    /\ [](~escaped /\ (pc = "done" => (visited = filtered /\ pos = Len(filtered))))
    /\ (pc = "loop") ~> (pc = "done")

\* C6 witness: run has returned after catching an exception in a bar before
\* the last one.
C6_Witness ==
    /\ pc = "done"
    /\ caught >= 1
    /\ Len(visited) >= 2
    /\ Len(equity_records) >= 2

\* C7: every exception caught by the loop's except clause appends one entry
\* to engine.errors.
C7_CaughtExceptionIsRecorded ==
    [][caught' = caught + 1 => Len(errors') = Len(errors) + 1]_vars

\* a fraction <<numerator, denominator>> within [0, 1]
InUnit(f) == f[2] > 0 /\ 0 <= f[1] /\ f[1] <= f[2]

\* the largest of the initial capital and the first i records
RECURSIVE RunningPeak(_, _)
RunningPeak(recs, i) ==
    IF i = 0 THEN InitialCapital
    ELSE IF recs[i] > RunningPeak(recs, i - 1) THEN recs[i]
    ELSE RunningPeak(recs, i - 1)

\* C8: the tracked peak never decreases and is at least every total value
\* recorded so far; each bar's drawdown (peak - current)/peak and the tracked
\* max drawdown lie in [0, 1].
C8_PeakAndDrawdownBounds ==
    /\ [](/\ \A i \in 1..Len(equity_records) : peak_value >= equity_records[i]
          /\ peak_value = RunningPeak(equity_records, Len(equity_records))
          /\ InUnit(current_drawdown)
          /\ InUnit(max_drawdown)
          /\ \A i \in 1..Len(equity_records) :
                InUnit(<<RunningPeak(equity_records, i) - equity_records[i],
                         RunningPeak(equity_records, i)>>))
    /\ [][peak_value' >= peak_value]_vars

\* C8 witness: after a gain to a new peak the value fell below the initial
\* capital; the peak stayed and the drawdown is positive.
C8_Witness ==
    /\ Len(equity_records) = 3
    /\ equity_records[2] > InitialCapital
    /\ equity_records[3] < InitialCapital
    /\ equity_records[3] > 0
    /\ peak_value = equity_records[2]
    /\ current_drawdown[1] > 0
    /\ ~FracLess(max_drawdown, current_drawdown)

\* the largest of the first i records
RECURSIVE CurvePeak(_, _)
CurvePeak(recs, i) ==
    IF i = 1 THEN recs[1]
    ELSE IF recs[i] > CurvePeak(recs, i - 1) THEN recs[i]
    ELSE CurvePeak(recs, i - 1)

\* max over the bars of (running peak - equity) / running peak
RECURSIVE CurveDrawdown(_, _)
CurveDrawdown(recs, i) ==
    IF i = 0 THEN <<0, 1>>
    ELSE LET pk == CurvePeak(recs, i)
             dd == IF pk > 0 THEN <<pk - recs[i], pk>> ELSE <<0, 1>>
         IN  FracMax(CurveDrawdown(recs, i - 1), dd)

FracEq(a, b) == a[1] * b[2] = b[1] * a[2]

\* C9: the max drawdown of the report (in percent) is the maximum over the
\* bars of (running peak - equity)/running peak, and equals the max drawdown
\* update_equity tracked.
C9_ReportedDrawdownIsRunningPeakDrawdown ==
    metrics_max_drawdown # Absent =>
        /\ FracEq(metrics_max_drawdown,
                  <<100 * CurveDrawdown(equity_records, Len(equity_records))[1],
                    CurveDrawdown(equity_records, Len(equity_records))[2]>>)
        /\ FracEq(metrics_max_drawdown, <<100 * max_drawdown[1], max_drawdown[2]>>)

\* C10: the step-dependent cache never holds more than max_size entries.
C10_TimeCacheBounded == Len(time_cache) <= max_size

\* C10 witness: the cache is full after a set that evicted an entry, and a
\* lookup has hit.
C10_Witness ==
    /\ Len(time_cache) = max_size
    /\ last_evicted # NONE
    /\ time_cache_hits >= 1

CachedKeys(c) == {c[i].key : i \in 1..Len(c)}

\* the cached key used least recently
LeastRecentlyUsed == use_order[CHOOSE i \in 1..Len(use_order) :
                        /\ use_order[i] \in CachedKeys(time_cache)
                        /\ \A j \in 1..(i - 1) : use_order[j] \notin CachedKeys(time_cache)]

\* C11: a set that overflows the step-dependent cache removes exactly the
\* cached key whose last use (a hit of get_time_cached or a set_time_cached)
\* is the oldest; and a key is cached whenever fewer than max_size other
\* keys have been used since its own last use.
C11_EvictsLeastRecentlyUsed ==
    /\ [](\A i \in 1..Len(use_order) :
             Len(use_order) - i < max_size => use_order[i] \in CachedKeys(time_cache))
    /\ [][(time_cache' # <<>> /\ CachedKeys(time_cache) \ CachedKeys(time_cache') # {}) =>
            CachedKeys(time_cache) \ CachedKeys(time_cache') = {LeastRecentlyUsed}]_vars

\* C11 witness: key 1 was set first, then key 2, key 1 was hit, and the set
\* of key 3 evicted key 2, not the older entry 1.
C11_Witness ==
    /\ max_size = 2
    /\ use_order = <<2, 1, 3>>
    /\ last_evicted = 2
    /\ time_cache_hits = 1
    /\ time_cache_misses = 0
    /\ CachedKeys(time_cache) = {1, 3}

\* C12: building a run over the caller's table, running it and reading its
\* results leaves the caller's table object as it was: no column added, no
\* cell changed.
C12_CallerTableUntouched == tables["caller"] = OriginalTable

\* the report of a run that ran alone with the same strategy and signals
AloneReport(r) ==
    LET marked == \E d \in Dates : own_marks[r][d] # NaN
    IN  [done |-> TRUE,
         has_signals |-> marked,
         rows |-> IF marked THEN {<<d, own_marks[r][d]>> : d \in Dates} ELSE {},
         columns |-> BaseColumns \cup {clean_rule_name(own_rule[r])}
                     \cup (IF marked THEN {"signal"} ELSE {})]

\* C13: a run interleaved with another run over the same table reports the
\* signal data (and table columns) it reports when it runs alone.
C13_InterleavedRunsAsAlone ==
    \A r \in Runs : run_pc[r] = "reported" => reported[r] = AloneReport(r)

\* C14: every event pushed is given exactly once to the handler registered
\* for its type and is then gone: none is given twice or to another type's
\* handler, none is popped without a handler, none stays queued after being
\* handled, and when run has returned none is left undelivered.
C14_EachEventDeliveredOnce ==
    /\ \A i, j \in 1..Len(handled) : handled[i].id = handled[j].id => i = j
    /\ \A i \in 1..Len(handled) :
          /\ handled[i].handler = handlers[handled[i].type]
          /\ \A k \in 1..Len(queue) : queue[k].id # handled[i].id
    /\ dropped = <<>>
    /\ pc = "done" => {handled[i].id : i \in 1..Len(handled)} = 1..(nextId - 1)

\* the parsed text of the last evaluation and the state it left
LastTree == ast_parse(Rules[ev_last.rule]).node
LastState == State(ev_time_cache, ev_service_cache, ev_trace)
Evaluated == ev_last.rule # 0

\* REF(e, n) with a number written for n
IsRefCall(node) ==
    /\ node.kind = "Call" /\ node.id = "REF" /\ Len(node.args) = 2
    /\ node.args[2].kind = "Constant"

\* C15: REF(e, n) evaluated at step s returns, without error, the value the
\* expression e has at step max(0, s - n), for every expression e that has
\* a value there.
C15_RefIsEarlierValue ==
    (Evaluated /\ ev_last.mode = "ref" /\ IsRefCall(LastTree)) =>
        LET e == LastTree.args[1]
            at == Max(0, ev_last.step - LastTree.args[2].value)
            earlier == Eval(e, ev_data, at, LastState)
        IN  earlier.error = "" => ev_last.error = "" /\ ev_last.v = earlier.v

\* name(column, k1, ..., kn) with a column of the table and positive numbers
IsIndicatorCall(node, names) ==
    /\ node.kind = "Call" /\ node.id \in names /\ Len(node.args) >= 2
    /\ node.args[1].kind = "Name" /\ node.args[1].id \in DOMAIN ev_data
    /\ \A k \in 2..Len(node.args) :
          node.args[k].kind = "Constant" /\ node.args[k].value > 0

\* C16: SMA(series, w) evaluated through the parser at a step s >= w - 1 is
\* the mean of the rows s - w + 1 .. s of the series.
C16_SmaIsWindowMean ==
    (/\ Evaluated /\ ev_last.mode = "ref" /\ IsIndicatorCall(LastTree, {"SMA"})
     /\ Len(LastTree.args) = 2
     /\ ev_last.step >= LastTree.args[2].value - 1) =>
        LET w == LastTree.args[2].value
            series == ev_data[LastTree.args[1].id]
        IN  /\ ev_last.error = ""
            /\ ev_last.v = Rat(SumRows(series, ev_last.step - w + 1, ev_last.step), w)

\* the step has fewer rows than the routine of indicators.py needs
LacksRows(func_name, idx, args) ==
    CASE func_name \in {"SMA", "STD", "EMA"} -> idx < args[1] - 1
      [] func_name \in {"RSI", "ZSCORE", "Z_SCORE"} -> idx < args[1]
      [] func_name = "DIF" -> idx < args[2]
      [] func_name \in {"DEA", "MACD"} -> idx < args[3] + args[1]

\* C17: an indicator evaluated through the parser at a step with fewer rows
\* than it needs raises nothing and returns its neutral default: 50 for RSI,
\* 0 for the others.
C17_NeutralDefaultWhenRowsLack ==
    (/\ Evaluated /\ ev_last.mode = "ref" /\ IsIndicatorCall(LastTree, IndicatorNames)
     /\ Len(LastTree.args) - 1 \in Arity(LastTree.id) \ {0}
     /\ LacksRows(LastTree.id, ev_last.step,
                  [k \in 1..(Len(LastTree.args) - 1) |-> LastTree.args[k + 1].value])) =>
        /\ ev_last.error = ""
        /\ ev_last.v = IF LastTree.id = "RSI" THEN Num(50) ELSE Num(0)

\* x / y or x // y whose operands have values at the step, y's being zero
ZeroDivision(node, idx) ==
    /\ node.kind = "BinOp" /\ node.id \in {"/", "//"}
    /\ Eval(node.args[1], ev_data, idx, LastState).error = ""
    /\ LET y == Eval(node.args[2], ev_data, idx, LastState)
       IN  y.error = "" /\ IsZero(y.v)

\* C18: a division x / y or x // y whose divisor evaluates to zero has the
\* value 0, and evaluate_at raises nothing for a rule that is such a
\* division or compares one with a number.
C18_DivisionByZeroIsZero ==
    Evaluated =>
        /\ ZeroDivision(LastTree, ev_last.step) =>
              /\ ev_last.error = ""
              /\ ev_last.mode = "ref" => ev_last.v = Num(0)
        /\ (/\ LastTree.kind = "Compare"
            /\ ZeroDivision(LastTree.args[1], ev_last.step)
            /\ LastTree.args[2].kind = "Constant") =>
              /\ ev_last.error = ""
              /\ ev_last.v = Bool(compare_func(LastTree.id, Num(0),
                                               Num(LastTree.args[2].value)))

\* C18 witness: close // volume was evaluated at a step where volume is 0
\* and gave 0.
C18_Witness ==
    /\ Evaluated
    /\ ev_last.mode = "ref"
    /\ LastTree = BinOp(Name("close"), "//", Name("volume"))
    /\ ev_data["volume"][ev_last.step + 1] = 0
    /\ ev_data["close"][ev_last.step + 1] # 0
    /\ ev_last.error = ""
    /\ ev_last.v = Num(0)

\* the symbols of the snapshot that have a value at the step
Valued(data_dict, idx) ==
    {k \in 1..Len(data_dict) : field_value_at(data_dict[k], idx) # NONE}

\* C19: rank returns 1 + the number of snapshot symbols whose value at the
\* current step is strictly greater than the current symbol's (ties share
\* the best rank), counting only symbols that have a value; it returns 0
\* when there is no snapshot, the current symbol is not in it or has no
\* value.
C19_RankCountsStrictlyGreater ==
    rk_result.asked =>
        LET valued == Valued(rk_data, rk_result.idx)
            mine == {k \in valued : rk_data[k].symbol = rk_result.symbol}
        IN  IF mine = {} THEN rk_result.rank = 0
            ELSE \A m \in mine :
                    rk_result.rank =
                        1 + Cardinality({k \in valued :
                                field_value_at(rk_data[k], rk_result.idx)
                                    > field_value_at(rk_data[m], rk_result.idx)})

\* C20: a call of calculate_signals fires a rebalance exactly when, daily,
\* its date differs from the date of the last trigger; weekly, its date is
\* the configured weekday and lies at least 7 days after the date of the
\* last trigger; monthly, its date is the configured day of the month and
\* lies at least 28 days after the date of the last trigger (a first call
\* has no last trigger to wait for). So two dates on the configured weekday
\* 7 days apart both trigger and two calls on one date never both do.
C20_RebalanceFiresExactlyOnSchedule ==
    rb_call.made =>
        LET timestamp == rb_call.timestamp
            last == rb_call.last
            since == timestamp.day - last.day
        IN  /\ rb_config.frequency = "daily" =>
                  (rb_call.fired <=> (~last.set \/ since # 0))
            /\ rb_config.frequency = "weekly" =>
                  (rb_call.fired <=>
                      /\ weekday_of(timestamp.day) = rb_config.rebalance_day
                      /\ ~last.set \/ since >= 7)
            /\ rb_config.frequency = "monthly" =>
                  (rb_call.fired <=>
                      /\ day_of_month(timestamp.day, 1) = rb_config.rebalance_day
                      /\ ~last.set \/ since >= 28)
            /\ (rb_call.fired /\ last.set) => since # 0

\* the texts of LogicRules that are empty or hold blanks only, and those
\* that Python does not take for an expression (a leading blank, a missing
\* operand)
EmptyTexts == {7, 8}
BrokenTexts == {9, 10}

\* the texts of LogicRules that name a column the table lacks or a function
\* the evaluator does not know
UndefinedTexts == {11, 12, 13, 14, 15}

\* C23: validate_syntax returns (False, non-empty message) for a text that is
\* empty, blank or no expression, and (True, message) for every expression,
\* those naming undefined columns or functions included; a call of it leaves
\* the price table, the trace and both caches as they were.
C23_ValidateSyntaxOnlyParses ==
    [][ev_checked' # ev_checked =>
          /\ ev_checked'.made
          /\ ev_checked'.ok = (ev_checked'.rule \notin EmptyTexts \cup BrokenTexts)
          /\ ev_checked'.message # ""
          /\ UNCHANGED <<ev_data, ev_trace, ev_time_cache, ev_service_cache, ev_last>>]_vars

\* an undefined function is accepted on a parser that has evaluated before
C23_Witness ==
    /\ ev_rules = "logic"
    /\ ev_checked.made
    /\ ev_checked.rule \in UndefinedTexts
    /\ ev_checked.ok
    /\ ev_trace # {}
    /\ ev_service_cache # {}

\* the number of calls nested inside one another in an expression
RECURSIVE call_depth(_)
call_depth(node) ==
    LET inner == {call_depth(node.args[i]) : i \in DOMAIN node.args}
        deepest == IF inner = {} THEN 0 ELSE CHOOSE d \in inner : \A e \in inner : e <= d
    IN  IF node.kind = "Call" THEN deepest + 1 ELSE deepest

\* C24: one evaluate_at invocation ends in the recursion-limit error
\* (RecursionError, not SyntaxError) exactly when the calls of its
\* expression, REF chains included, are nested more than max_recursion_depth
\* deep.
C24_DepthLimitCountsEveryNestedCall ==
    (ev_rules = "depth" /\ ev_last.rule # 0) =>
        LET tree == ast_parse(RuleList(ev_rules)[ev_last.rule])
        IN  (ev_last.error = "RecursionError")
                <=> (call_depth(tree.node) > max_recursion_depth)

\* C25: every evaluation of a text that reads COST or POSITION, directly or
\* inside REF, returns what a computation with empty caches returns from the
\* portfolio as it is at that moment.
C25_PortfolioValuesNeverStale ==
    [][(ev_rules = "portfolio" /\ ev_count' # ev_count) =>
          LET fresh == evaluate_at(RuleList(ev_rules)[ev_last'.rule], ev_data,
                                   ev_last'.step, ev_last'.mode,
                                   [State(<<>>, {}, ev_trace) EXCEPT !.pm = ev_portfolio])
          IN  /\ ev_last'.error = fresh.error
              /\ ev_last'.v = fresh.v]_vars

\* the texts of LogicRules with a call of too few or too many arguments, and
\* those with an argument out of range (a negative period, a quantile above
\* 1, a period of 0)
ArityTexts == {16, 17, 18, 23}
RangeTexts == {19, 20, 21}

\* C26: at every step and in both modes the evaluation of a text that names
\* a missing column or an unsupported function, or calls a function with the
\* wrong number of arguments or an argument out of range, ends in an error.
C26_SemanticErrorsAlwaysRaise ==
    (/\ ev_rules = "logic"
     /\ ev_last.rule \in UndefinedTexts \cup ArityTexts \cup RangeTexts)
        => ev_last.error # ""

\* the operands of the chains of and, and of or, in LogicRules, read from
\* the price table at a step
chain_operands(r, data, step) ==
    LET close == data.close[step + 1]
        volume == data.volume[step + 1]
    IN  CASE r = 1 -> <<close > 1, volume > 1>>
          [] r = 2 -> <<close > 1, volume > 1>>
          [] r = 3 -> <<close > 1, volume > 1, close > volume>>
          [] r = 4 -> <<close > 1, volume > 1, close > 2>>
          [] r = 5 -> <<close > 1 /\ volume > 1, close > 2>>

AndChains == {1, 3}
OrChains == {2, 4, 5}

\* C28: a chain of two or more boolean operands joined by and evaluates
\* without error to true exactly when every operand is true, a chain joined
\* by or exactly when at least one is; the result is a boolean.
C28_BoolChainsOfAnyLength ==
    (ev_rules = "logic" /\ ev_last.rule \in AndChains \cup OrChains) =>
        LET operands == chain_operands(ev_last.rule, ev_data, ev_last.step)
            expected == IF ev_last.rule \in AndChains
                        THEN \A i \in DOMAIN operands : operands[i]
                        ELSE \E i \in DOMAIN operands : operands[i]
        IN  /\ ev_last.error = ""
            /\ ev_last.isbool
            /\ ev_last.v = Bool(expected)

PriceColumns == {"open", "high", "low", "close", "volume"}

\* the values read from the price columns of the table
price_cells(data, trace) ==
    [col \in PriceColumns \cap DOMAIN data |->
        [row \in 0..(RowCount(data) - 1) |-> value_at(data, trace, col, row)]]

\* C29: the evaluation of a text that validate_syntax accepts, at any step
\* and in either mode, leaves every value of the open, high, low, close and
\* volume columns as it was.
C29_EvaluationKeepsPrices ==
    [][(/\ ev_rules = "indicators"
        /\ ev_count' # ev_count
        /\ validate_syntax(RuleList(ev_rules)[ev_last'.rule]).ok)
          => price_cells(ev_data', ev_trace') = price_cells(ev_data, ev_trace)]_vars

\* the texts of Rules that are one call of an indicator of the service
IndicatorTexts == {2, 3, 4, 11, 12, 13, 14, 15, 16, 17}

\* C30: whatever calls were made before, the indicator service returns for a
\* name, a series, an index and arguments the value a computation without
\* caches returns on that series.
C30_IndicatorCacheIsTransparent ==
    [][(/\ ev_rules = "indicators"
        /\ ev_count' # ev_count
        /\ ev_last'.rule \in IndicatorTexts)
          => LET fresh == evaluate_at(RuleList(ev_rules)[ev_last'.rule], ev_data,
                                      ev_last'.step, ev_last'.mode,
                                      State(<<>>, {}, ev_trace))
             IN  /\ ev_last'.error = fresh.error
                 /\ ev_last'.v = fresh.v]_vars

\* C27: a call of generate_signals in which the evaluation of one of the
\* rules it consults raises an error returns no signal, whatever the other
\* rules evaluate to.
C27_ErrorBarGivesNoSignal ==
    (/\ gs_phase = "returned"
     /\ \E i \in 1..Len(gs_considered) : gs_outcome[gs_considered[i]] = "error")
        => gs_signals = <<>>

\* the signals of a type the last call returned for a symbol
signal_count(symbol, signal_type) ==
    Cardinality({i \in DOMAIN rb_signals :
                    /\ rb_signals[i].symbol = symbol
                    /\ rb_signals[i].signal_type = signal_type})

Bit(b) == IF b THEN 1 ELSE 0

\* the call passed a positive price for the symbol
Priced(symbol) == symbol \in DOMAIN rb_call.prices /\ rb_call.prices[symbol] > 0

\* C21: a call that triggers returns exactly one sell signal for each held
\* symbol outside the new target set, exactly one buy signal for each target
\* symbol not held, and nothing else.
C21_OneSignalPerChange ==
    (rb_market = "basket" /\ rb_call.made /\ rb_call.fired) =>
        \A symbol \in Symbols(rb_market) :
            /\ signal_count(symbol, "CLOSE")
                  = Bit(symbol \in rb_call.held /\ symbol \notin target_positions)
            /\ signal_count(symbol, "REBALANCE")
                  = Bit(symbol \in target_positions /\ symbol \notin rb_call.held)

\* C21 as the code has it: a call that triggers returns exactly one sell
\* signal for each held symbol outside the new target set for which the
\* caller passed a positive price, exactly one buy signal for each target
\* symbol not held for which it passed a positive price, and nothing else.
C21_OneSignalPerPricedChange ==
    (rb_market = "basket" /\ rb_call.made /\ rb_call.fired) =>
        /\ \A i \in DOMAIN rb_signals : rb_signals[i].symbol \in Symbols(rb_market)
        /\ \A symbol \in Symbols(rb_market) :
              /\ signal_count(symbol, "CLOSE")
                    = Bit(/\ symbol \in rb_call.held
                          /\ symbol \notin target_positions
                          /\ Priced(symbol))
              /\ signal_count(symbol, "REBALANCE")
                    = Bit(/\ symbol \in target_positions
                          /\ symbol \notin rb_call.held
                          /\ Priced(symbol))

\* a trigger that sells a held symbol, buys a target and skips a held
\* symbol outside the target set that has no positive price
C21_Witness ==
    /\ rb_market = "basket" /\ rb_call.made /\ rb_call.fired
    /\ \E sold, bought \in Symbols(rb_market) :
          /\ signal_count(sold, "CLOSE") = 1
          /\ signal_count(bought, "REBALANCE") = 1
    /\ \E skipped \in Symbols(rb_market) :
          /\ ~Priced(skipped)
          /\ \/ skipped \in rb_call.held \ target_positions
             \/ skipped \in target_positions \ rb_call.held

\* the symbols with a row at the timestamp of the last call whose close and
\* volume meet the configured floors
Eligible ==
    {symbol \in Symbols(rb_market) :
        LET table == TableOf(rb_market, symbol)
            row == RowAt(table, rb_call.timestamp)
        IN  /\ row.found
            /\ rb_config.min_price.set =>
                  table.data.close[row.idx + 1] >= rb_config.min_price.v
            /\ rb_config.min_volume.set =>
                  table.data.volume[row.idx + 1] >= rb_config.min_volume.v}

\* the factor expression of a symbol at the timestamp of the last call,
\* computed on the symbol's own table with empty caches
own_factor(symbol) ==
    LET table == TableOf(rb_market, symbol)
    IN  evaluate_at(FactorExpressions[rb_config.factor_expression], table.data,
                    RowAt(table, rb_call.timestamp).idx, "factor",
                    State(<<>>, {}, {})).v

\* a is strictly better than b under the configured ranking_method
better(a, b) ==
    IF rb_config.ranking_method = "ascending" THEN RLess(a, b) ELSE RLess(b, a)

\* C22: after a trigger the target set holds at most top_n symbols, each
\* with a row at the timestamp and above the floors, and no eligible symbol
\* outside it has a strictly better factor value than a symbol inside it.
C22_TargetsAreTheBestEligible ==
    (rb_market = "basket" /\ rb_call.made /\ rb_call.fired) =>
        /\ Cardinality(target_positions) <= rb_config.top_n
        /\ target_positions \subseteq Eligible
        /\ \A out \in Eligible \ target_positions, chosen \in target_positions :
              ~better(own_factor(out), own_factor(chosen))

\* C31: the factor value calculate_cross_sectional_factor gives a symbol
\* with a row at the timestamp is the factor expression evaluated on that
\* symbol's own table, whatever the other symbols and the earlier calls.
C31_FactorFromOwnTableOnly ==
    (rb_market = "basket" /\ rb_call.made /\ rb_call.fired) =>
        \A symbol \in Symbols(rb_market) :
            RowAt(TableOf(rb_market, symbol), rb_call.timestamp).found =>
                rb_call.factor_values[symbol] = own_factor(symbol)

\* the process_event_queue iteration at hand dispatches an Order event
OrderDispatched ==
    /\ ProcessEvent
    /\ Head(queue).type = "Order"

BuySide == {"OPEN", "BUY"}
SellSide == {"SELL", "CLOSE", "LIQUIDATE"}

\* C33: an order whose direction came from an OPEN or BUY signal never
\* lowers the position and raises it when it is executed; one from a SELL,
\* CLOSE or LIQUIDATE signal never raises it and lowers it when executed.
C33_SignalSideDecidesSign ==
    [][OrderDispatched =>
          /\ Head(queue).kind \in BuySide =>
                /\ position' >= position
                /\ Len(trades') > Len(trades) => position' > position
          /\ Head(queue).kind \in SellSide =>
                /\ position' <= position
                /\ Len(trades') > Len(trades) => position' < position]_vars

\* C34: a handler that raises leaves process_event_queue draining: nothing
\* reaches run's except clause, the events queued behind the raising one
\* stay queued in their order, and when the drain has returned every event
\* pushed so far has been dispatched, oldest first.
C34_RaisingHandlerDoesNotStopDrain ==
    /\ [][(ProcessEvent /\ Raises(Head(queue))) =>
             /\ pc' = "drain"
             /\ queue' = Tail(queue)
             /\ caught' = caught
             /\ escaped' = escaped]_vars
    /\ [](pc = "progress" =>
             /\ {handled[i].id : i \in 1..Len(handled)}
                   \cup {dropped[i] : i \in 1..Len(dropped)} = 1..(nextId - 1)
             /\ \A i, j \in 1..Len(handled) :
                   i < j => handled[i].id < handled[j].id)

\* C34 witness: a handler raised during a drain, an event queued behind it
\* was dispatched after it, and that drain has returned.
C34_Witness ==
    /\ pc = "progress"
    /\ \E i, j \in 1..Len(handled) :
          /\ i < j
          /\ handled[i].raised
          /\ handled[j].id > handled[i].id

\* C35: a register_strategy call either appends the strategy and installs
\* its schedule handler, or raises and leaves the strategy list and the
\* handler registry as they were; and the registered strategy_ids are
\* pairwise distinct.
C35_RegisterIsAllOrNothing ==
    /\ reg_call.made =>
          \/ /\ reg_call.raised = ""
             /\ reg_strategies = Append(reg_call.strategies, reg_call.strategy)
             /\ "StrategySchedule" \in DOMAIN reg_handlers
             /\ reg_handlers["StrategySchedule"] = reg_call.strategy.strategy_id.v
          \/ /\ reg_call.raised # ""
             /\ reg_strategies = reg_call.strategies
             /\ reg_handlers = reg_call.handlers
    /\ \A i, j \in DOMAIN reg_strategies :
          reg_strategies[i].strategy_id = reg_strategies[j].strategy_id => i = j

\* C36: with min_interval_days > 0, in every mode, the dates of any two
\* should_rebalance calls that returned True are at least
\* min_interval_days calendar days apart.
C36_TruesAreMinIntervalApart ==
    (rp_config.min_interval_days > 0 /\ rp_trues[1].set /\ rp_trues[2].set) =>
        rp_trues[2].day - rp_trues[1].day >= rp_config.min_interval_days

\* C37: in mode trading_days without a minimum interval, a service called
\* once per new trading day never returns False on interval trading days in
\* a row, with allow_first_rebalance true or false.
C37_TradingDaysKeepTriggering ==
    (rp_config.mode = "trading_days" /\ rp_config.min_interval_days = 0
     /\ rp_call.made /\ rp_call.daily) =>
        rp_misses < rp_config.interval

\* C38: a broadcast_progress call ends without having raised, also when
\* connect or disconnect ran for its backtest_id while it was suspended in
\* a send; when it ends every connection whose send failed is gone from
\* the subscribers of the backtest_id, and no backtest_id has an empty
\* subscriber set.
C38_BroadcastSurvivesChanges ==
    [][((BroadcastProgress \/ SendText) /\ broadcast'.pc = "done") =>
          /\ broadcast'.raised = ""
          /\ broadcast'.backtest_id \in DOMAIN active_connections' =>
                active_connections'[broadcast'.backtest_id] \cap broadcast'.failed = {}
          /\ \A backtest_id \in DOMAIN active_connections' :
                active_connections'[backtest_id] # {}]_vars

\* the moves the claim allows a stored status
StatusMoves ==
    {<<"pending", "running">>, <<"running", "completed">>, <<"running", "failed">>}

\* C39: the stored status of a backtest starts as pending and changes only
\* from pending to running and from running to completed or failed; once
\* completed or failed it does not change, so a completed backtest is
\* never stored as failed afterwards.
C39_StatusOnlyMovesForward ==
    [][\A backtest_id \in DOMAIN bt_store' :
          IF backtest_id \notin DOMAIN bt_store
          THEN bt_store'[backtest_id].status = "pending"
          ELSE \/ bt_store'[backtest_id].status = bt_store[backtest_id].status
               \/ <<bt_store[backtest_id].status, bt_store'[backtest_id].status>>
                     \in StatusMoves]_vars


\* TestASTNodeHandler: the label the tests expect of a node. An arithmetic
\* operation is written without blanks, the power operator as ^, an operand
\* that binds less tightly in parentheses, a comparison with one blank on
\* each side of its operator, the arguments of a call with a comma and no
\* blank between them.
expected_symbol(op) == IF op = "**" THEN "^" ELSE op

RECURSIVE expected_expr(_)
expected_expr(node) ==
    CASE node.kind = "Name" -> <<node.id>>
      [] node.kind = "Constant" -> <<Digits[node.value + 1]>>
      [] node.kind = "BinOp" ->
            Parenthesised(expected_expr(node.args[1]),
                          needs_parentheses(node.args[1], node.id, TRUE))
            \o <<expected_symbol(node.id)>>
            \o Parenthesised(expected_expr(node.args[2]),
                             needs_parentheses(node.args[2], node.id, FALSE))
      [] node.kind = "Compare" ->
            expected_expr(node.args[1]) \o <<" ", node.id, " ">>
            \o expected_expr(node.args[2])
      [] node.kind = "UnaryOp" ->
            get_operator_symbol(node.id) \o expected_expr(node.args[1])
      [] node.kind = "Call" ->
            <<node.id, "(">>
            \o JoinArgs([i \in 1..Len(node.args) |-> expected_expr(node.args[i])],
                        <<",">>)
            \o <<")">>
      [] OTHER -> unparse(node)

\* C40: the label node_to_expr gives the expression of the text the parser
\* was last given is the canonical one: arithmetic without blanks around
\* the operator, ^ for the power operator, operands of lower precedence in
\* parentheses, one blank on each side of a comparison operator, call
\* arguments separated by a comma without a blank.
C40_LabelsAreCanonical ==
    ev_last.rule # 0 =>
        \A tree \in {ast_parse(RuleList(ev_rules)[ev_last.rule])} :
            tree.ok => Text(node_to_expr(tree.node)) = Text(expected_expr(tree.node))

====
